---------------------------- MODULE Spec2Model ----------------------------
(***************************************************************************)
(* Model of the subscription-gated city bot (src/maiin.py, src/database.py):*)
(* the rate limiter / spam guard, the subscription verifier and its cache, *)
(* the cache janitor, the admin reset and the handlers that reach them.    *)
(*                                                                         *)
(* Time.  time.time() is modelled by the integer clock `now` (seconds);    *)
(* every comparison of the code is a difference of two clock readings, so  *)
(* the origin is arbitrary: clock value 0 is an instant at which the       *)
(* in-memory state is still as constructed.  Several operations may happen *)
(* at one clock value (they are then less than a second apart, in the      *)
(* order of the steps).                                                    *)
(*                                                                         *)
(* Suspension points.  A handler is one action up to the external          *)
(* membership query (bot.get_chat_member); the query is a message in       *)
(* flight (`pending`) and the rest of the handler is the action that       *)
(* receives the answer.  The awaits on the storage backend and on message  *)
(* delivery are not interleaving points of the model.                      *)
(***************************************************************************)
EXTENDS Integers, Sequences, FiniteSets, TLC

\* ----------------------------------------------------------------- bounds
NUsers == 2
EarlySpan == 1
MaxPending == 2
MaxRun == 7
MaxSeeds == 2
MaxPrefix == 2

\* ------------------------------------------------------ program constants
ADMIN_ID == 1
RATE_LIMIT_THRESHOLD == 5
RATE_LIMIT_WINDOW == 10
MESSAGE_COOLDOWN == 2
SUBSCRIPTION_CACHE_TTL == 30    \* the literal of check_subscription_fresh
SWEEP_INTERVAL == 1800
SUBSCRIPTION_SWEEP_AGE == 60
MAX_CACHE_SIZE == 1000
CITIES_CACHE_TTL == 300

Users == 1..NUsers

VARIABLES
    now,                  \* time.time()
    user_message_counts,  \* Dict[int, List[float]]: user -> window of timestamps
    last_message_times,   \* Dict[int, float]
    blocked_users,        \* Set[int]
    subscription_cache,   \* Dict[int, (bool, float)]
    spam_tasks,           \* tasks created by asyncio.create_task(db.set_user_blocked(..))
    admitted_at,          \* history: user -> time of the user's latest admitted event
    db_users,             \* table users: user_id -> [is_blocked, block_reason]
    _cities_cache,        \* the list get_available_cities returned last (<< >> is empty)
    _cities_cache_time,   \* current_time of the call that stored it
    sweep_at,             \* clock value at which the janitor's sleep ends
    fsm_state,            \* FSMContext state of each user ("" is no state)
    fsm_data,             \* FSMContext data of each user: selected_city (<< >> is none)
    pending,              \* bot.get_chat_member calls in flight, in start order
    out                   \* what the last step did and returned (observation)

limiter ==
    <<user_message_counts, last_message_times, blocked_users, spam_tasks,
      admitted_at>>
fsm == <<fsm_state, fsm_data>>
cities_memo == <<_cities_cache, _cities_cache_time>>
vars == <<now, user_message_counts, last_message_times, blocked_users,
          subscription_cache, spam_tasks, admitted_at, db_users, _cities_cache,
          _cities_cache_time, sweep_at, fsm_state, fsm_data, pending, out>>

\* ------------------------------------------------------------ dictionaries
Put(d, k, v) == [x \in (DOMAIN d) \cup {k} |-> IF x = k THEN v ELSE d[x]]
Drop(d, ks) == [x \in (DOMAIN d) \ ks |-> d[x]]
Empty == [x \in {} |-> 0]

\* defaultdict(list): reading a missing key gives the empty list
Window(u) == IF u \in DOMAIN user_message_counts THEN user_message_counts[u] ELSE << >>

\* (variant: an entry exactly RATE_LIMIT_WINDOW old is kept)
Prune_inclusive(msgs, t) == SelectSeq(msgs, LAMBDA m : t - m <= RATE_LIMIT_WINDOW)

\* [m for m in msgs if t - m < RATE_LIMIT_WINDOW]
Prune(msgs, t) == SelectSeq(msgs, LAMBDA m : t - m < RATE_LIMIT_WINDOW)

\* ------------------------------------------------------------ rate limiter
\* (variant: the blocked test left out)
IsBlocked_dropped(u) == FALSE

IsBlocked(u) == u \in blocked_users

\* (variant: the cooldown one second short)
InCooldown_short(u) ==
    /\ u \in DOMAIN last_message_times
    /\ now - last_message_times[u] < MESSAGE_COOLDOWN - 1

InCooldown(u) ==
    /\ u \in DOMAIN last_message_times
    /\ now - last_message_times[u] < MESSAGE_COOLDOWN

OverThreshold(msgs) == Len(msgs) >= RATE_LIMIT_THRESHOLD

\* The result of check_rate_limit(u) at the current state and clock:
\* the value returned, the three collections afterwards, the task created.
\* (variant: an attempt rejected by the cooldown is recorded in the window)
check_rate_limit_records_rejected(u) ==
    IF IsBlocked(u)
    THEN [ret |-> FALSE, counts |-> user_message_counts,
          last |-> last_message_times, blocked |-> blocked_users, task |-> {}]
    ELSE LET pruned == Prune(Window(u), now)
             counts1 == Put(user_message_counts, u, pruned)
         IN  IF InCooldown(u)
             THEN [ret |-> FALSE, counts |-> Put(counts1, u, Append(pruned, now)),
                   last |-> last_message_times, blocked |-> blocked_users,
                   task |-> {}]
             ELSE IF OverThreshold(pruned)
             THEN [ret |-> FALSE, counts |-> counts1,
                   last |-> last_message_times,
                   blocked |-> blocked_users \cup {u}, task |-> {u}]
             ELSE [ret |-> TRUE, counts |-> Put(counts1, u, Append(pruned, now)),
                   last |-> Put(last_message_times, u, now),
                   blocked |-> blocked_users, task |-> {}]

check_rate_limit(u) ==
    IF IsBlocked(u)
    THEN [ret |-> FALSE, counts |-> user_message_counts,
          last |-> last_message_times, blocked |-> blocked_users, task |-> {}]
    ELSE LET pruned == Prune(Window(u), now)
             counts1 == Put(user_message_counts, u, pruned)
         IN  IF InCooldown(u)
             THEN [ret |-> FALSE, counts |-> counts1,
                   last |-> last_message_times, blocked |-> blocked_users,
                   task |-> {}]
             ELSE IF OverThreshold(pruned)
             THEN [ret |-> FALSE, counts |-> counts1,
                   last |-> last_message_times,
                   blocked |-> blocked_users \cup {u}, task |-> {u}]
             ELSE [ret |-> TRUE, counts |-> Put(counts1, u, Append(pruned, now)),
                   last |-> Put(last_message_times, u, now),
                   blocked |-> blocked_users, task |-> {}]

\* (variant: the handler goes on whatever the limiter returned)
Admitted_always(r) == TRUE

\* `if not await check_rate_limit(user_id): return` of a handler
Admitted(r) == r.ret

\* The limiter part of a handler step: the call of check_rate_limit(u)
RateLimited(u, r) ==
    /\ r = check_rate_limit(u)
    /\ user_message_counts' = r.counts
    /\ last_message_times' = r.last
    /\ blocked_users' = r.blocked
    /\ spam_tasks' = spam_tasks \cup r.task
    /\ admitted_at' = IF r.ret THEN Put(admitted_at, u, now) ELSE admitted_at



\* ------------------------------------------------------------- directory
\* Text is a sequence of Unicode code points.  The catalog of
\* seed_cities_data, in its order.
cities_data ==
  <<
    [code |-> <<107, 121, 105, 118>>,    \* 'kyiv' (database.py:211)
     name_uk |-> <<1050, 1080, 1111, 1074>>,
     channel_url |-> "https://t.me/+1Dn41QYXr00yMTNi",
     aliases |-> <<<<1082, 1080, 1111, 1074>>,
                   <<1082, 1080, 1077, 1074>>,
                   <<107, 121, 105, 118>>,
                   <<107, 105, 101, 118>>>>],
    [code |-> <<107, 104, 97, 114, 107, 105, 118>>,    \* 'kharkiv' (database.py:217)
     name_uk |-> <<1061, 1072, 1088, 1082, 1110, 1074>>,
     channel_url |-> "https://t.me/+thVaxxh_vR85MjVi",
     aliases |-> <<<<1093, 1072, 1088, 1082, 1110, 1074>>,
                   <<1093, 1072, 1088, 1100, 1082, 1086, 1074>>,
                   <<107, 104, 97, 114, 107, 105, 118>>,
                   <<107, 104, 97, 114, 107, 111, 118>>>>],
    [code |-> <<100, 110, 105, 112, 114, 111>>,    \* 'dnipro' (database.py:223)
     name_uk |-> <<1044, 1085, 1110, 1087, 1088, 1086>>,
     channel_url |-> "https://t.me/+N1GBEYNwmohjODAy",
     aliases |-> <<<<1076, 1085, 1110, 1087, 1088, 1086>>,
                   <<1076, 1085, 1077, 1087, 1088>>,
                   <<100, 110, 105, 112, 114, 111>>,
                   <<100, 110, 101, 112, 114>>>>],
    [code |-> <<108, 118, 105, 118>>,    \* 'lviv' (database.py:229)
     name_uk |-> <<1051, 1100, 1074, 1110, 1074>>,
     channel_url |-> "https://t.me/+6n24GOCizpQ0NzMy",
     aliases |-> <<<<1083, 1100, 1074, 1110, 1074>>,
                   <<1083, 1100, 1074, 1086, 1074>>,
                   <<108, 118, 105, 118>>,
                   <<108, 119, 111, 119>>>>],
    [code |-> <<111, 100, 101, 115, 97>>,    \* 'odesa' (database.py:235)
     name_uk |-> <<1054, 1076, 1077, 1089, 1072>>,
     channel_url |-> "https://t.me/+I9c4gGScQe40Nzdi",
     aliases |-> <<<<1086, 1076, 1077, 1089, 1072>>,
                   <<1086, 1076, 1077, 1089, 1089, 1072>>,
                   <<111, 100, 101, 115, 97>>,
                   <<111, 100, 101, 115, 115, 97>>>>],
    [code |-> <<112, 111, 108, 116, 97, 118, 97>>,    \* 'poltava' (database.py:242)
     name_uk |-> <<1055, 1086, 1083, 1090, 1072, 1074, 1072>>,
     channel_url |-> "https://t.me/+z5qd0XB1QWQ0MWNi",
     aliases |-> <<<<1087, 1086, 1083, 1090, 1072, 1074, 1072>>,
                   <<112, 111, 108, 116, 97, 118, 97>>>>],
    [code |-> <<122, 104, 121, 116, 111, 109, 121, 114>>,    \* 'zhytomyr' (database.py:248)
     name_uk |-> <<1046, 1080, 1090, 1086, 1084, 1080, 1088>>,
     channel_url |-> "https://t.me/+njAe0h54d7IyOWRi",
     aliases |-> <<<<1078, 1080, 1090, 1086, 1084, 1080, 1088>>,
                   <<122, 104, 121, 116, 111, 109, 121, 114>>>>],
    [code |-> <<122, 97, 112, 111, 114, 105, 122, 104, 122, 104, 105, 97>>,    \* 'zaporizhzhia' (database.py:254)
     name_uk |-> <<1047, 1072, 1087, 1086, 1088, 1110, 1078, 1078, 1103>>,
     channel_url |-> "https://t.me/+fJmKDoQ-a6BjY2Vi",
     aliases |-> <<<<1079, 1072, 1087, 1086, 1088, 1110, 1078, 1078, 1103>>,
                   <<1079, 1072, 1087, 1086, 1088, 1086, 1078, 1100, 1077>>,
                   <<122, 97, 112, 111, 114, 105, 122, 104, 122, 104, 105, 97>>>>],
    [code |-> <<105, 118, 97, 110, 111, 45, 102, 114, 97, 110, 107, 105, 118, 115, 107>>,    \* 'ivano-frankivsk' (database.py:260)
     name_uk |-> <<1030, 1074, 1072, 1085, 1086, 45, 1060, 1088, 1072, 1085, 1082, 1110, 1074, 1089, 1100, 1082>>,
     channel_url |-> "",
     aliases |-> <<<<1110, 1074, 1072, 1085, 1086, 45, 1092, 1088, 1072, 1085, 1082, 1110, 1074, 1089, 1100, 1082>>,
                   <<105, 118, 97, 110, 111, 45, 102, 114, 97, 110, 107, 105, 118, 115, 107>>>>],
    [code |-> <<99, 104, 101, 114, 110, 105, 118, 116, 115, 105>>,    \* 'chernivtsi' (database.py:266)
     name_uk |-> <<1063, 1077, 1088, 1085, 1110, 1074, 1094, 1110>>,
     channel_url |-> "https://t.me/+MqdooK82_eA5Mjhi",
     aliases |-> <<<<1095, 1077, 1088, 1085, 1110, 1074, 1094, 1110>>,
                   <<1095, 1077, 1088, 1085, 1086, 1074, 1094, 1099>>,
                   <<99, 104, 101, 114, 110, 105, 118, 116, 115, 105>>>>],
    [code |-> <<107, 104, 109, 101, 108, 110, 121, 116, 115, 107, 121, 105>>,    \* 'khmelnytskyi' (database.py:272)
     name_uk |-> <<1061, 1084, 1077, 1083, 1100, 1085, 1080, 1094, 1100, 1082, 1080, 1081>>,
     channel_url |-> "https://t.me/+InPiC-xZZ_o0ZTQ6",
     aliases |-> <<<<1093, 1084, 1077, 1083, 1100, 1085, 1080, 1094, 1100, 1082, 1080, 1081>>,
                   <<1093, 1084, 1077, 1083, 1100, 1085, 1080, 1094, 1082, 1080, 1081>>,
                   <<107, 104, 109, 101, 108, 110, 121, 116, 115, 107, 121, 105>>>>],
    [code |-> <<116, 101, 114, 110, 111, 112, 105, 108>>,    \* 'ternopil' (database.py:278)
     name_uk |-> <<1058, 1077, 1088, 1085, 1086, 1087, 1110, 1083, 1100>>,
     channel_url |-> "",
     aliases |-> <<<<1090, 1077, 1088, 1085, 1086, 1087, 1110, 1083, 1100>>,
                   <<1090, 1077, 1088, 1085, 1086, 1087, 1086, 1083, 1100>>,
                   <<116, 101, 114, 110, 111, 112, 105, 108>>>>],
    [code |-> <<99, 104, 101, 114, 107, 97, 115, 121>>,    \* 'cherkasy' (database.py:284)
     name_uk |-> <<1063, 1077, 1088, 1082, 1072, 1089, 1080>>,
     channel_url |-> "https://t.me/+k3gzY_lCrwo4ZTYy",
     aliases |-> <<<<1095, 1077, 1088, 1082, 1072, 1089, 1080>>,
                   <<99, 104, 101, 114, 107, 97, 115, 121>>>>],
    [code |-> <<118, 105, 110, 110, 121, 116, 115, 105, 97>>,    \* 'vinnytsia' (database.py:290)
     name_uk |-> <<1042, 1110, 1085, 1085, 1080, 1094, 1103>>,
     channel_url |-> "https://t.me/+DkXJOA1Z2RRlMGQy",
     aliases |-> <<<<1074, 1110, 1085, 1085, 1080, 1094, 1103>>,
                   <<1074, 1080, 1085, 1085, 1080, 1094, 1072>>,
                   <<118, 105, 110, 110, 121, 116, 115, 105, 97>>>>],
    [code |-> <<117, 122, 104, 104, 111, 114, 111, 100>>,    \* 'uzhhorod' (database.py:296)
     name_uk |-> <<1059, 1078, 1075, 1086, 1088, 1086, 1076>>,
     channel_url |-> "",
     aliases |-> <<<<1091, 1078, 1075, 1086, 1088, 1086, 1076>>,
                   <<117, 122, 104, 104, 111, 114, 111, 100>>>>],
    [code |-> <<108, 117, 116, 115, 107>>,    \* 'lutsk' (database.py:302)
     name_uk |-> <<1051, 1091, 1094, 1100, 1082>>,
     channel_url |-> "",
     aliases |-> <<<<1083, 1091, 1094, 1100, 1082>>,
                   <<1083, 1091, 1094, 1082>>,
                   <<108, 117, 116, 115, 107>>>>],
    [code |-> <<114, 105, 118, 110, 101>>,    \* 'rivne' (database.py:308)
     name_uk |-> <<1056, 1110, 1074, 1085, 1077>>,
     channel_url |-> "https://t.me/+LY-YQ_JD3oNiMGI6",
     aliases |-> <<<<1088, 1110, 1074, 1085, 1077>>,
                   <<1088, 1086, 1074, 1085, 1086>>,
                   <<114, 105, 118, 110, 101>>>>],
    [code |-> <<107, 114, 111, 112, 121, 118, 110, 121, 116, 115, 107, 121, 105>>,    \* 'kropyvnytskyi' (database.py:314)
     name_uk |-> <<1050, 1088, 1086, 1087, 1080, 1074, 1085, 1080, 1094, 1100, 1082, 1080, 1081>>,
     channel_url |-> "",
     aliases |-> <<<<1082, 1088, 1086, 1087, 1080, 1074, 1085, 1080, 1094, 1100, 1082, 1080, 1081>>,
                   <<1082, 1088, 1086, 1087, 1080, 1074, 1085, 1080, 1094, 1082, 1080, 1081>>,
                   <<107, 114, 111, 112, 121, 118, 110, 121, 116, 115, 107, 121, 105>>>>],
    [code |-> <<109, 121, 107, 111, 108, 97, 105, 118>>,    \* 'mykolaiv' (database.py:320)
     name_uk |-> <<1052, 1080, 1082, 1086, 1083, 1072, 1111, 1074>>,
     channel_url |-> "",
     aliases |-> <<<<1084, 1080, 1082, 1086, 1083, 1072, 1111, 1074>>,
                   <<1085, 1080, 1082, 1086, 1083, 1072, 1077, 1074>>,
                   <<109, 121, 107, 111, 108, 97, 105, 118>>>>],
    [code |-> <<115, 117, 109, 121>>,    \* 'sumy' (database.py:326)
     name_uk |-> <<1057, 1091, 1084, 1080>>,
     channel_url |-> "https://t.me/+dCNkA-INwd40OWYy",
     aliases |-> <<<<1089, 1091, 1084, 1080>>,
                   <<115, 117, 109, 121>>>>],
    [code |-> <<99, 104, 101, 114, 110, 105, 104, 105, 118>>,    \* 'chernihiv' (database.py:332)
     name_uk |-> <<1063, 1077, 1088, 1085, 1110, 1075, 1110, 1074>>,
     channel_url |-> "https://t.me/+VOsRB3Zm3mQzMWM6",
     aliases |-> <<<<1095, 1077, 1088, 1085, 1110, 1075, 1110, 1074>>,
                   <<1095, 1077, 1088, 1085, 1080, 1075, 1086, 1074>>,
                   <<99, 104, 101, 114, 110, 105, 104, 105, 118>>>>],
    [code |-> <<107, 104, 101, 114, 115, 111, 110>>,    \* 'kherson' (database.py:338)
     name_uk |-> <<1061, 1077, 1088, 1089, 1086, 1085>>,
     channel_url |-> "",
     aliases |-> <<<<1093, 1077, 1088, 1089, 1086, 1085>>,
                   <<107, 104, 101, 114, 115, 111, 110>>>>],
    [code |-> <<107, 114, 101, 109, 101, 110, 99, 104, 117, 107>>,    \* 'kremenchuk' (database.py:344)
     name_uk |-> <<1050, 1088, 1077, 1084, 1077, 1085, 1095, 1091, 1082>>,
     channel_url |-> "",
     aliases |-> <<<<1082, 1088, 1077, 1084, 1077, 1085, 1095, 1091, 1082>>,
                   <<107, 114, 101, 109, 101, 110, 99, 104, 117, 107>>>>],
    [code |-> <<98, 105, 108, 97, 45, 116, 115, 101, 114, 107, 118, 97>>,    \* 'bila-tserkva' (database.py:350)
     name_uk |-> <<1041, 1110, 1083, 1072, 32, 1062, 1077, 1088, 1082, 1074, 1072>>,
     channel_url |-> "https://t.me/+LGpIp61JC_w3ZDM6",
     aliases |-> <<<<1073, 1110, 1083, 1072, 32, 1094, 1077, 1088, 1082, 1074, 1072>>,
                   <<1073, 1077, 1083, 1072, 1103, 32, 1094, 1077, 1088, 1082, 1086, 1074, 1100>>,
                   <<98, 105, 108, 97, 45, 116, 115, 101, 114, 107, 118, 97>>>>],
    [code |-> <<98, 114, 111, 118, 97, 114, 121>>,    \* 'brovary' (database.py:356)
     name_uk |-> <<1041, 1088, 1086, 1074, 1072, 1088, 1080>>,
     channel_url |-> "",
     aliases |-> <<<<1073, 1088, 1086, 1074, 1072, 1088, 1080>>,
                   <<98, 114, 111, 118, 97, 114, 121>>>>],
    [code |-> <<98, 111, 114, 121, 115, 112, 105, 108>>,    \* 'boryspil' (database.py:362)
     name_uk |-> <<1041, 1086, 1088, 1080, 1089, 1087, 1110, 1083, 1100>>,
     channel_url |-> "https://t.me/+BhDo7PnTuB41Y2Yy",
     aliases |-> <<<<1073, 1086, 1088, 1080, 1089, 1087, 1110, 1083, 1100>>,
                   <<1073, 1086, 1088, 1080, 1089, 1087, 1086, 1083, 1100>>,
                   <<98, 111, 114, 121, 115, 112, 105, 108>>>>],
    [code |-> <<105, 114, 112, 105, 110>>,    \* 'irpin' (database.py:368)
     name_uk |-> <<1030, 1088, 1087, 1110, 1085, 1100>>,
     channel_url |-> "",
     aliases |-> <<<<1110, 1088, 1087, 1110, 1085, 1100>>,
                   <<1080, 1088, 1087, 1077, 1085, 1100>>,
                   <<105, 114, 112, 105, 110>>>>],
    [code |-> <<98, 117, 99, 104, 97>>,    \* 'bucha' (database.py:374)
     name_uk |-> <<1041, 1091, 1095, 1072>>,
     channel_url |-> "",
     aliases |-> <<<<1073, 1091, 1095, 1072>>,
                   <<98, 117, 99, 104, 97>>>>],
    [code |-> <<117, 109, 97, 110>>,    \* 'uman' (database.py:380)
     name_uk |-> <<1059, 1084, 1072, 1085, 1100>>,
     channel_url |-> "",
     aliases |-> <<<<1091, 1084, 1072, 1085, 1100>>,
                   <<117, 109, 97, 110>>>>],
    [code |-> <<111, 108, 101, 107, 115, 97, 110, 100, 114, 105, 105, 97>>,    \* 'oleksandriia' (database.py:386)
     name_uk |-> <<1054, 1083, 1077, 1082, 1089, 1072, 1085, 1076, 1088, 1110, 1103>>,
     channel_url |-> "",
     aliases |-> <<<<1086, 1083, 1077, 1082, 1089, 1072, 1085, 1076, 1088, 1110, 1103>>,
                   <<1072, 1083, 1077, 1082, 1089, 1072, 1085, 1076, 1088, 1080, 1103>>,
                   <<111, 108, 101, 107, 115, 97, 110, 100, 114, 105, 105, 97>>>>],
    [code |-> <<109, 117, 107, 97, 99, 104, 101, 118, 111>>,    \* 'mukachevo' (database.py:392)
     name_uk |-> <<1052, 1091, 1082, 1072, 1095, 1077, 1074, 1086>>,
     channel_url |-> "https://t.me/+v_9k4nwiQ_RlY2M6",
     aliases |-> <<<<1084, 1091, 1082, 1072, 1095, 1077, 1074, 1086>>,
                   <<109, 117, 107, 97, 99, 104, 101, 118, 111>>>>],
    [code |-> <<100, 114, 111, 104, 111, 98, 121, 99, 104>>,    \* 'drohobych' (database.py:398)
     name_uk |-> <<1044, 1088, 1086, 1075, 1086, 1073, 1080, 1095>>,
     channel_url |-> "",
     aliases |-> <<<<1076, 1088, 1086, 1075, 1086, 1073, 1080, 1095>>,
                   <<100, 114, 111, 104, 111, 98, 121, 99, 104>>>>],
    [code |-> <<115, 116, 114, 121, 105>>,    \* 'stryi' (database.py:404)
     name_uk |-> <<1057, 1090, 1088, 1080, 1081>>,
     channel_url |-> "",
     aliases |-> <<<<1089, 1090, 1088, 1080, 1081>>,
                   <<115, 116, 114, 121, 105>>>>],
    [code |-> <<99, 104, 101, 114, 118, 111, 110, 111, 104, 114, 97, 100>>,    \* 'chervonohrad' (database.py:410)
     name_uk |-> <<1063, 1077, 1088, 1074, 1086, 1085, 1086, 1075, 1088, 1072, 1076>>,
     channel_url |-> "",
     aliases |-> <<<<1095, 1077, 1088, 1074, 1086, 1085, 1086, 1075, 1088, 1072, 1076>>,
                   <<99, 104, 101, 114, 118, 111, 110, 111, 104, 114, 97, 100>>>>],
    [code |-> <<107, 111, 108, 111, 109, 121, 105, 97>>,    \* 'kolomyia' (database.py:416)
     name_uk |-> <<1050, 1086, 1083, 1086, 1084, 1080, 1103>>,
     channel_url |-> "",
     aliases |-> <<<<1082, 1086, 1083, 1086, 1084, 1080, 1103>>,
                   <<107, 111, 108, 111, 109, 121, 105, 97>>>>],
    [code |-> <<105, 122, 109, 97, 105, 108>>,    \* 'izmail' (database.py:422)
     name_uk |-> <<1030, 1079, 1084, 1072, 1111, 1083>>,
     channel_url |-> "",
     aliases |-> <<<<1110, 1079, 1084, 1072, 1111, 1083>>,
                   <<1080, 1079, 1084, 1072, 1080, 1083>>,
                   <<105, 122, 109, 97, 105, 108>>>>],
    [code |-> <<99, 104, 111, 114, 110, 111, 109, 111, 114, 115, 107>>,    \* 'chornomorsk' (database.py:428)
     name_uk |-> <<1063, 1086, 1088, 1085, 1086, 1084, 1086, 1088, 1089, 1100, 1082>>,
     channel_url |-> "",
     aliases |-> <<<<1095, 1086, 1088, 1085, 1086, 1084, 1086, 1088, 1089, 1100, 1082>>,
                   <<1095, 1077, 1088, 1085, 1086, 1084, 1086, 1088, 1089, 1082>>,
                   <<99, 104, 111, 114, 110, 111, 109, 111, 114, 115, 107>>>>],
    [code |-> <<121, 117, 122, 104, 110, 101>>,    \* 'yuzhne' (database.py:434)
     name_uk |-> <<1070, 1078, 1085, 1077>>,
     channel_url |-> "",
     aliases |-> <<<<1102, 1078, 1085, 1077>>,
                   <<121, 117, 122, 104, 110, 101>>>>],
    [code |-> <<112, 111, 100, 105, 108, 115, 107>>,    \* 'podilsk' (database.py:440)
     name_uk |-> <<1055, 1086, 1076, 1110, 1083, 1100, 1089, 1100, 1082>>,
     channel_url |-> "",
     aliases |-> <<<<1087, 1086, 1076, 1110, 1083, 1100, 1089, 1100, 1082>>,
                   <<1087, 1086, 1076, 1086, 1083, 1100, 1089, 1082>>,
                   <<112, 111, 100, 105, 108, 115, 107>>>>],
    [code |-> <<107, 114, 121, 118, 121, 105, 45, 114, 105, 104>>,    \* 'kryvyi-rih' (database.py:446)
     name_uk |-> <<1050, 1088, 1080, 1074, 1080, 1081, 32, 1056, 1110, 1075>>,
     channel_url |-> "https://t.me/+9-w3x2jR8ik1OTNi",
     aliases |-> <<<<1082, 1088, 1080, 1074, 1080, 1081, 32, 1088, 1110, 1075>>,
                   <<1082, 1088, 1080, 1074, 1086, 1081, 32, 1088, 1086, 1075>>,
                   <<107, 114, 121, 118, 121, 105, 45, 114, 105, 104>>>>],
    [code |-> <<107, 97, 109, 105, 97, 110, 115, 107, 101>>,    \* 'kamianske' (database.py:452)
     name_uk |-> <<1050, 1072, 1084, 39, 1103, 1085, 1089, 1100, 1082, 1077>>,
     channel_url |-> "",
     aliases |-> <<<<1082, 1072, 1084, 39, 1103, 1085, 1089, 1100, 1082, 1077>>,
                   <<1082, 1072, 1084, 1077, 1085, 1089, 1082, 1086, 1077>>,
                   <<107, 97, 109, 105, 97, 110, 115, 107, 101>>>>],
    [code |-> <<112, 97, 118, 108, 111, 104, 114, 97, 100>>,    \* 'pavlohrad' (database.py:458)
     name_uk |-> <<1055, 1072, 1074, 1083, 1086, 1075, 1088, 1072, 1076>>,
     channel_url |-> "",
     aliases |-> <<<<1087, 1072, 1074, 1083, 1086, 1075, 1088, 1072, 1076>>,
                   <<112, 97, 118, 108, 111, 104, 114, 97, 100>>>>],
    [code |-> <<108, 111, 122, 111, 118, 97>>,    \* 'lozova' (database.py:464)
     name_uk |-> <<1051, 1086, 1079, 1086, 1074, 1072>>,
     channel_url |-> "",
     aliases |-> <<<<1083, 1086, 1079, 1086, 1074, 1072>>,
                   <<108, 111, 122, 111, 118, 97>>>>],
    [code |-> <<99, 104, 117, 104, 117, 105, 118>>,    \* 'chuhuiv' (database.py:470)
     name_uk |-> <<1063, 1091, 1075, 1091, 1111, 1074>>,
     channel_url |-> "",
     aliases |-> <<<<1095, 1091, 1075, 1091, 1111, 1074>>,
                   <<1095, 1091, 1075, 1091, 1077, 1074>>,
                   <<99, 104, 117, 104, 117, 105, 118>>>>],
    [code |-> <<115, 108, 97, 118, 117, 116, 121, 99, 104>>,    \* 'slavutych' (database.py:476)
     name_uk |-> <<1057, 1083, 1072, 1074, 1091, 1090, 1080, 1095>>,
     channel_url |-> "",
     aliases |-> <<<<1089, 1083, 1072, 1074, 1091, 1090, 1080, 1095>>,
                   <<115, 108, 97, 118, 117, 116, 121, 99, 104>>>>],
    [code |-> <<116, 114, 117, 115, 107, 97, 118, 101, 116, 115>>,    \* 'truskavets' (database.py:482)
     name_uk |-> <<1058, 1088, 1091, 1089, 1082, 1072, 1074, 1077, 1094, 1100>>,
     channel_url |-> "",
     aliases |-> <<<<1090, 1088, 1091, 1089, 1082, 1072, 1074, 1077, 1094, 1100>>,
                   <<1090, 1088, 1091, 1089, 1082, 1072, 1074, 1077, 1094>>,
                   <<116, 114, 117, 115, 107, 97, 118, 101, 116, 115>>>>]
  >>

k_y_i_v == <<107, 121, 105, 118>>
k_i_e_v == <<107, 105, 101, 118>>
t_e_r_padded == <<32, 84, 101, 114>>    \* " Ter"
z_z == <<122, 122>>
t_e_r_n_o_p_i_l == <<116, 101, 114, 110, 111, 112, 105, 108>>

\* seed_cities_data on tables (cities, city_aliases).  The loop takes the
\* entries of the catalog in order: INSERT OR REPLACE the city's row, DELETE
\* the aliases of its code, INSERT OR IGNORE the entry's aliases.  Its
\* result is written out here: the rows of codes outside the catalog stay,
\* and for a code of the catalog the entry handled last decides.
CatalogCodes == {cities_data[i].code : i \in DOMAIN cities_data}

LastEntry(code) ==
    LET last == CHOOSE k \in DOMAIN cities_data :
                    /\ cities_data[k].code = code
                    /\ \A j \in DOMAIN cities_data :
                           j > k => cities_data[j].code # code
    IN  cities_data[last]

\* INSERT OR REPLACE INTO cities (code, name_uk, channel_url, updated_at)
CityRow(city) ==
    [code |-> city.code, name_uk |-> city.name_uk,
     channel_url |-> city.channel_url]

\* (variant: every city also gets the alias 'kiev')
AliasRows_shared(city) ==
    {[city_code |-> city.code, alias |-> city.aliases[i]] :
        i \in DOMAIN city.aliases}
        \cup {[city_code |-> city.code, alias |-> k_i_e_v]}

\* INSERT OR IGNORE INTO city_aliases (city_code, alias), alias by alias
AliasRows(city) ==
    {[city_code |-> city.code, alias |-> city.aliases[i]] :
        i \in DOMAIN city.aliases}

\* (variant: no DELETE before the aliases are inserted)
KeptAliases_all(tables) == tables.city_aliases

\* DELETE FROM city_aliases WHERE city_code = ?: the rows that stay
KeptAliases(tables) ==
    {a \in tables.city_aliases : a.city_code \notin CatalogCodes}

seed_cities_data(tables) ==
    [cities |->
        {c \in tables.cities : c.code \notin CatalogCodes} \cup
        {CityRow(LastEntry(code)) : code \in CatalogCodes},
     city_aliases |->
        KeptAliases(tables) \cup
        UNION {AliasRows(LastEntry(code)) : code \in CatalogCodes}]

\* The tables cities and city_aliases of the running bot: main has created
\* them and run seed_cities_data before polling starts, and nothing else
\* writes them.
Directory == seed_cities_data([cities |-> {}, city_aliases |-> {}])

\* SQLite's LOWER: the ASCII letters A-Z only
LowerChar(c) == IF c >= 65 /\ c <= 90 THEN c + 32 ELSE c
Lower(str) == [i \in 1..Len(str) |-> LowerChar(str[i])]

\* SQLite's LIKE: % is any sequence, _ any one character, a letter matches
\* without regard to ASCII case
RECURSIVE Like(_, _)
Like(str, pat) ==
    IF pat = << >> THEN str = << >>
    ELSE IF Head(pat) = 37
    THEN Like(str, Tail(pat)) \/ (str # << >> /\ Like(Tail(str), pat))
    ELSE /\ str # << >>
         /\ (Head(pat) = 95 \/ LowerChar(Head(pat)) = LowerChar(Head(str)))
         /\ Like(Tail(str), Tail(pat))

\* cities c LEFT JOIN city_aliases ca ON c.code = ca.city_code: a row for
\* each alias of a city, one row with a NULL alias for a city without
\* aliases; with the LOWER of the columns the queries compare.
Joined ==
    UNION {
        LET own == {ca \in Directory.city_aliases : ca.city_code = c.code}
            row == [c |-> c, lower_code |-> Lower(c.code),
                    lower_name_uk |-> Lower(c.name_uk),
                    alias_is_null |-> TRUE, lower_alias |-> << >>]
        IN  IF own = {} THEN {row}
            ELSE {[row EXCEPT !.alias_is_null = FALSE,
                              !.lower_alias = Lower(ca.alias)] : ca \in own}
        : c \in Directory.cities}

\* find_city_by_alias: the cities a joined row of which satisfies the WHERE
\* clause; LIMIT 1 without ORDER BY returns one of them (none: None).
find_city_by_alias(alias) ==
    LET key == Lower(alias)
    IN  {row.c : row \in
            {r \in Joined :
                \/ r.lower_code = key
                \/ ~r.alias_is_null /\ r.lower_alias = key}}

\* find_cities_by_prefix(prefix, 1)
find_cities_by_prefix(prefix) ==
    LET pat == Lower(prefix \o <<37>>)
    IN  {row.c : row \in
            {r \in Joined :
                \/ Like(r.lower_name_uk, pat)
                \/ ~r.alias_is_null /\ Like(r.lower_alias, pat)}}

\* find_city: the cities it may return (empty: it returns None)
find_city(city_input) ==
    LET city == find_city_by_alias(city_input)
    IN  IF city # {} THEN city ELSE find_cities_by_prefix(city_input)

\* (variant: no test of the link)
HasLink_any(c) == TRUE

\* WHERE channel_url IS NOT NULL AND channel_url != '' (a missing link is "")
HasLink(c) == c.channel_url # ""

\* The BINARY collation: text compared code point by code point
RECURSIVE Less(_, _)
Less(s, t) ==
    IF t = << >> THEN FALSE
    ELSE IF s = << >> THEN TRUE
    ELSE \/ Head(s) < Head(t)
         \/ Head(s) = Head(t) /\ Less(Tail(s), Tail(t))

\* ORDER BY name_uk
RECURSIVE OrderByName(_)
OrderByName(rows) ==
    IF rows = {} THEN << >>
    ELSE LET first == CHOOSE r \in rows :
                          \A q \in rows : ~Less(q.name_uk, r.name_uk)
         IN  <<first>> \o OrderByName(rows \ {first})

\* Database.get_available_cities
Database_get_available_cities == OrderByName({c \in Directory.cities : HasLink(c)})

\* `if _cities_cache and (current_time - _cities_cache_time < CITIES_CACHE_TTL)`
CitiesCacheFresh ==
    /\ _cities_cache # << >>
    /\ now - _cities_cache_time < CITIES_CACHE_TTL

\* get_available_cities of maiin.py: the list returned and the cache it
\* leaves.  db_answers: the storage query returns (it raises otherwise, and
\* the old cache, or [], is returned).
get_available_cities(db_answers) ==
    IF CitiesCacheFresh \/ ~db_answers
    THEN [ret |-> _cities_cache, cache |-> _cities_cache,
          time |-> _cities_cache_time]
    ELSE [ret |-> Database_get_available_cities,
          cache |-> Database_get_available_cities, time |-> now]

\* str.strip()
IsSpace(c) == c \in {9, 10, 13, 32}
RECURSIVE LStrip(_)
LStrip(str) == IF str # << >> /\ IsSpace(Head(str)) THEN LStrip(Tail(str)) ELSE str
RECURSIVE RStrip(_)
RStrip(str) ==
    IF str # << >> /\ IsSpace(str[Len(str)])
    THEN RStrip(SubSeq(str, 1, Len(str) - 1)) ELSE str
Strip(str) == RStrip(LStrip(str))

\* The casings of a text a user may type.  Upper case of a letter: Latin
\* a-z, Cyrillic 0430-044F (to 0410-042F), 0450-045F (to 0400-040F: the
\* Ukrainian letters among them) and 0491.
UpperChar(c) ==
    IF (c >= 97 /\ c <= 122) \/ (c >= 1072 /\ c <= 1103) THEN c - 32
    ELSE IF c >= 1104 /\ c <= 1119 THEN c - 80
    ELSE IF c = 1169 THEN 1168
    ELSE c

Upper(str) == [i \in 1..Len(str) |-> UpperChar(str[i])]
Capitalized(str) == [i \in 1..Len(str) |-> IF i = 1 THEN UpperChar(str[i]) ELSE str[i]]
Alternating(str) == [i \in 1..Len(str) |-> IF i % 2 = 0 THEN UpperChar(str[i]) ELSE str[i]]
Casings(str) == {str, Upper(str), Capitalized(str), Alternating(str)}

\* Texts that strip() leaves empty
BlankTexts == {<< >>, <<32>>, <<32, 32>>, <<9, 32>>, <<10>>}

\* Inputs: the texts typed while waiting for a city, the codes of city_*
\* buttons.
Texts == {k_i_e_v, t_e_r_padded, z_z}
Codes == {k_y_i_v, t_e_r_n_o_p_i_l}

\* Observation of a step: the handler and the user the event came from, the
\* limiter's verdict ("admit", "reject"; "none": no limiter call), the user
\* verified, the current_time of that check_subscription_fresh call and its result ("yes", "no"; "none": not returned in
\* this step), where the result came from ("cache", "query"; "asked": the
\* query has just been sent), the platform's answer to the query, the reply,
\* the city it is about and the invite link sent ("": none), the codes of
\* the city buttons of the keyboard sent, the text looked up, the shared
\* collections touched while holding _antispam_lock, the users a broadcast
\* message was delivered to, the action of the row log_admin_action inserts
\* for an admin's request ("": none).
Base(op, u) ==
    [op |-> op, u |-> u, rl |-> "none", vu |-> 0, at |-> 0, sub |-> "none",
     via |-> "none", ans |-> "none", reply |-> "", city |-> << >>,
     link |-> "", run |-> 0, buttons |-> << >>, text |-> << >>,
     locked |-> {}, sent |-> {}, logged |-> ""]

\* The shared collections a step reads and writes inside
\* `with _antispam_lock:` (out.locked): check_rate_limit, the janitor's
\* sweep, the admin reset.
LockedByLimiter == {"user_message_counts", "last_message_times", "blocked_users"}
LockedByJanitor ==
    {"user_message_counts", "last_message_times", "subscription_cache",
     "message_cache"}
LockedByReset == LockedByLimiter \cup LockedByJanitor

Verdict(r) == IF r.ret THEN "admit" ELSE "reject"

\* out.run counts the admit-checks of one user that follow one another with
\* no other step between them (so at one clock value), the first of them
\* made on the limiter state as constructed; 0 outside such a run.
LimiterFresh ==
    /\ user_message_counts = Empty
    /\ last_message_times = Empty
    /\ blocked_users = {}

Run(u) ==
    IF LimiterFresh THEN 1
    ELSE IF out.run > 0 /\ out.u = u /\ out.rl # "none"
    THEN (IF out.run < MaxRun THEN out.run + 1 ELSE MaxRun)
    ELSE 0

\* Observation of a handler step that made the admit-check r of user u.
\* (variant: check_rate_limit without `with _antispam_lock`)
Checked_without_lock(op, u, r) ==
    [Base(op, u) EXCEPT !.rl = Verdict(r), !.run = Run(u)]

Checked(op, u, r) ==
    [Base(op, u) EXCEPT !.rl = Verdict(r), !.run = Run(u),
                        !.locked = LockedByLimiter]

\* ---------------------------------------------------------------- janitor
\* One sweep of cleanup_caches_periodically, after its sleep.
SweepDue == now >= sweep_at

\* await asyncio.sleep(1800): the next sweep is beyond every instant of the
\* model, which is all that is kept of it.
Horizon == SUBSCRIPTION_SWEEP_AGE + 2 * EarlySpan + 2

NextSweep ==
    IF now + SWEEP_INTERVAL > Horizon THEN Horizon + 1 ELSE now + SWEEP_INTERVAL

\* (variant: a window emptied by the pruning stays in the dict)
SweptCounts_keeps_empty ==
    [u \in DOMAIN user_message_counts |-> Prune(user_message_counts[u], now)]

SweptCounts ==
    LET pruned == [u \in DOMAIN user_message_counts |->
                      Prune(user_message_counts[u], now)]
    IN  Drop(pruned, {u \in DOMAIN pruned : pruned[u] = << >>})

\* (variant: the last-event time of every user with a window is dropped)
ExpiredUsers_all == DOMAIN user_message_counts

ExpiredUsers ==
    {u \in DOMAIN user_message_counts : Prune(user_message_counts[u], now) = << >>}

\* (variant: the entries past the verifier's lifetime are removed)
ExpiredSubscriptions_at_ttl ==
    {u \in DOMAIN subscription_cache :
        now - subscription_cache[u][2] > SUBSCRIPTION_CACHE_TTL}

ExpiredSubscriptions ==
    {u \in DOMAIN subscription_cache :
        now - subscription_cache[u][2] > SUBSCRIPTION_SWEEP_AGE}

SweptSubscriptions ==
    LET kept == Drop(subscription_cache, ExpiredSubscriptions)
    IN  IF Cardinality(DOMAIN kept) > MAX_CACHE_SIZE THEN Empty ELSE kept

\* (variant: a sweep also unblocks the users whose window it drops)
cleanup_caches_periodically_unblocks ==
    /\ SweepDue
    /\ user_message_counts' = SweptCounts
    /\ last_message_times' = Drop(last_message_times, ExpiredUsers)
    /\ blocked_users' = blocked_users \ ExpiredUsers
    /\ subscription_cache' = SweptSubscriptions
    /\ sweep_at' = NextSweep
    /\ out' = [Base("cleanup_caches_periodically", 0) EXCEPT
                    !.locked = LockedByJanitor]
    /\ UNCHANGED <<now, cities_memo, admitted_at,
                   spam_tasks, db_users, fsm, pending>>

cleanup_caches_periodically ==
    /\ SweepDue
    /\ user_message_counts' = SweptCounts
    /\ last_message_times' = Drop(last_message_times, ExpiredUsers)
    /\ subscription_cache' = SweptSubscriptions
    /\ sweep_at' = NextSweep
    /\ out' = [Base("cleanup_caches_periodically", 0) EXCEPT
                    !.locked = LockedByJanitor]
    /\ UNCHANGED <<now, cities_memo, admitted_at,
                   blocked_users, spam_tasks, db_users, fsm, pending>>

\* The janitor task is at `await asyncio.sleep(1800)` and the sleep has a
\* wake-up scheduled.
Asleep == sweep_at > now /\ sweep_at <= Horizon + 1

\* The sleep returns.  When it does is left open here (the 1800 seconds are
\* beyond the instants observed): the timer of the event loop fires.
sleep_ends ==
    /\ Asleep
    /\ sweep_at' = now
    /\ out' = Base("sleep_ends", 0)
    /\ UNCHANGED <<now, cities_memo, limiter, subscription_cache, db_users, fsm, pending>>

\* (variant: the exception leaves the loop, no further wake-up)
AfterException_task_ends == Horizon + 2

\* `except Exception as e: logger.error(...)` inside `while True`: the loop
\* goes on to the next sleep
AfterException == NextSweep

\* The places at which a sweep may raise: before the anti-spam part, or
\* after it and before the subscription part.
RaisePoints == {"before_antispam", "before_subscriptions"}

\* A sweep that raises at `point`: what was done stays done, the exception
\* is caught and logged.
cleanup_raises(point) ==
    /\ SweepDue
    /\ IF point = "before_antispam"
       THEN UNCHANGED <<user_message_counts, last_message_times>>
       ELSE /\ user_message_counts' = SweptCounts
            /\ last_message_times' = Drop(last_message_times, ExpiredUsers)
    /\ sweep_at' = AfterException
    /\ out' = [Base("cleanup_caches_periodically", 0) EXCEPT
                    !.reply = "error_logged", !.locked = LockedByJanitor]
    /\ UNCHANGED <<now, cities_memo, admitted_at,
                   blocked_users, spam_tasks, subscription_cache,
                   db_users, fsm, pending>>

\* ------------------------------------------------------------ admin reset
\* (variant: the blocked set left as it is)
admin_clear_cache_keeps_blocked(u) ==
    /\ IF u # ADMIN_ID
       THEN UNCHANGED <<user_message_counts, last_message_times,
                        subscription_cache>>
       ELSE /\ subscription_cache' = Empty
            /\ user_message_counts' = Empty
            /\ last_message_times' = Empty
    /\ out' = [Base("admin_clear_cache", u) EXCEPT
                    !.reply = IF u # ADMIN_ID THEN "no_access" ELSE "cleared",
                    !.locked = IF u # ADMIN_ID THEN {} ELSE LockedByReset]
    /\ UNCHANGED <<now, cities_memo, admitted_at,
                   blocked_users, spam_tasks, db_users, sweep_at, fsm,
                   pending>>

\* callback admin_clear_cache: the five clear() calls are made under
\* _antispam_lock with no await between them
admin_clear_cache(u) ==
    /\ IF u # ADMIN_ID
       THEN UNCHANGED <<user_message_counts, last_message_times, blocked_users,
                        subscription_cache>>
       ELSE /\ subscription_cache' = Empty
            /\ blocked_users' = {}
            /\ user_message_counts' = Empty
            /\ last_message_times' = Empty
    /\ out' = [Base("admin_clear_cache", u) EXCEPT
                    !.reply = IF u # ADMIN_ID THEN "no_access" ELSE "cleared",
                    !.locked = IF u # ADMIN_ID THEN {} ELSE LockedByReset]
    /\ UNCHANGED <<now, cities_memo, admitted_at,
                   spam_tasks, db_users, sweep_at, fsm, pending>>

\* ------------------------------------------- handlers: limiter and a reply
\* handle_other_messages; handle_rent_apartment and handle_subscribe have
\* the same shape: the admit-check, then a fixed reply.
handle_other_messages(u) ==
    LET r == check_rate_limit(u)
    IN  /\ RateLimited(u, r)
        /\ out' = [Checked("handle_other_messages", u, r) EXCEPT
                        !.reply = IF Admitted(r) THEN "menu" ELSE ""]
        /\ UNCHANGED <<now, cities_memo, subscription_cache, db_users, sweep_at, fsm,
                       pending>>

\* Database.save_user: INSERT OR REPLACE INTO users (user_id, username,
\* first_name, updated_at): the row is replaced, is_blocked and block_reason
\* take their defaults.
save_user(u) == Put(db_users, u, [is_blocked |-> FALSE, block_reason |-> ""])

cmd_start(u) ==
    LET r == check_rate_limit(u)
    IN  /\ RateLimited(u, r)
        /\ IF Admitted(r)
           THEN /\ fsm_state' = [fsm_state EXCEPT ![u] = ""]
                /\ fsm_data' = [fsm_data EXCEPT ![u] = << >>]
                /\ db_users' = save_user(u)
           ELSE UNCHANGED <<fsm, db_users>>
        /\ out' = [Checked("cmd_start", u, r) EXCEPT
                        !.reply = IF Admitted(r) THEN "welcome" ELSE ""]
        /\ UNCHANGED <<now, cities_memo, subscription_cache, sweep_at, pending>>

\* The task created by asyncio.create_task(db.set_user_blocked(u, True,
\* 'spam')) runs: UPDATE users SET is_blocked = ?, block_reason = ? WHERE
\* user_id = ?
set_user_blocked(u, is_blocked, reason) ==
    IF u \in DOMAIN db_users
    THEN [db_users EXCEPT ![u] = [is_blocked |-> is_blocked, block_reason |-> reason]]
    ELSE db_users

spam_task_runs(u) ==
    /\ u \in spam_tasks
    /\ spam_tasks' = spam_tasks \ {u}
    /\ db_users' = set_user_blocked(u, TRUE, "spam")
    /\ out' = Base("set_user_blocked", u)
    /\ UNCHANGED <<now, cities_memo, admitted_at,
                   user_message_counts, last_message_times, blocked_users,
                   subscription_cache, sweep_at, fsm, pending>>


\* --------------------------------------------------- subscription verifier
\* member.status as the platform reports it ("unknown": any other value),
\* and the two ways bot.get_chat_member fails.
Statuses ==
    {"creator", "administrator", "member", "restricted", "left", "kicked",
     "unknown"}
Errors == {"TelegramForbiddenError", "Exception"}
Answers == Statuses \cup Errors

\* (variant: the owner not counted)
IsMemberStatus_nocreator(s) == s \in {"member", "administrator"}

\* member.status in ['member', 'administrator', 'creator']
IsMemberStatus(s) == s \in {"member", "administrator", "creator"}

\* (variant: an error taken for a subscription)
Subscribed_failopen(ans) == IF ans \in Statuses THEN IsMemberStatus(ans) ELSE TRUE

\* is_subscribed at the end of the try / except of check_subscription_fresh
Subscribed(ans) == IF ans \in Statuses THEN IsMemberStatus(ans) ELSE FALSE

\* (variant: an entry of age 30 still served)
CacheFresh_inclusive(u) ==
    /\ u \in DOMAIN subscription_cache
    /\ now - subscription_cache[u][2] <= SUBSCRIPTION_CACHE_TTL

\* user_id in subscription_cache and current_time - timestamp < 30
CacheFresh(u) ==
    /\ u \in DOMAIN subscription_cache
    /\ now - subscription_cache[u][2] < SUBSCRIPTION_CACHE_TTL

CacheHit(u, force_refresh) == ~force_refresh /\ CacheFresh(u)

\* (variant: a failed query evicts the user's entry)
CacheAfter_errors_evict(u, ans, current_time) ==
    IF ans \in Statuses
    THEN Put(subscription_cache, u, <<Subscribed(ans), current_time>>)
    ELSE Drop(subscription_cache, {u})

\* (variant: a failed query leaves the cache as it was)
CacheAfter_errors_skipped(u, ans, current_time) ==
    IF ans \in Statuses
    THEN Put(subscription_cache, u, <<Subscribed(ans), current_time>>)
    ELSE subscription_cache

\* subscription_cache[user_id] = (is_subscribed, current_time), in the try
\* and in both except branches
CacheAfter(u, ans, current_time) ==
    Put(subscription_cache, u, <<Subscribed(ans), current_time>>)

\* (variant: the callback's re-check not forced)
ForceRefresh_never(h) == FALSE

\* The force_refresh argument each handler passes
ForceRefresh(h) ==
    h \in {"check_subscription_callback", "cmd_admin_check_subscription"}

NoCity == [code |-> << >>, name_uk |-> << >>, channel_url |-> ""]

\* A check_subscription_fresh call and the locals of the handler that made
\* it: the handler, the user the event came from, the user verified,
\* force_refresh, current_time, the handler's city and city_code.
Call(h, by, u, city, code) ==
    [h |-> h, by |-> by, u |-> u, force |-> ForceRefresh(h), t |-> now,
     city |-> city, code |-> code]

YesNo(b) == IF b THEN "yes" ELSE "no"

RemoveAt(q, i) == SubSeq(q, 1, i - 1) \o SubSeq(q, i + 1, Len(q))

\* (variant: the link sent whatever the verifier said)
Granted_always(is_subscribed) == TRUE

\* `if is_subscribed:` of process_city_selection
Granted(is_subscribed) == is_subscribed

\* The rest of the handler of call p once check_subscription_fresh has
\* returned is_subscribed; o is the observation so far, st and dt the FSM
\* state and data at that point.
Finish(p, is_subscribed, o, st, dt) ==
    LET ob == [o EXCEPT !.vu = p.u, !.at = p.t, !.sub = YesNo(is_subscribed)]
        cleared_st == [st EXCEPT ![p.by] = ""]
        cleared_dt == [dt EXCEPT ![p.by] = << >>]
    IN  IF p.h = "process_city_selection"
        THEN IF Granted(is_subscribed)
             THEN /\ out' = [ob EXCEPT !.reply = "link", !.city = p.city.code,
                                       !.link = p.city.channel_url]
                  /\ fsm_state' = cleared_st
                  /\ fsm_data' = cleared_dt
             ELSE /\ out' = [ob EXCEPT !.reply = "subscribe_first",
                                       !.city = p.city.code]
                  /\ fsm_state' = st
                  /\ fsm_data' = dt
        ELSE IF p.h = "check_subscription_callback"
        THEN IF is_subscribed
             THEN IF find_city_by_alias(p.code) = {}
                  THEN /\ out' = [ob EXCEPT !.reply = "city_not_found"]
                       /\ fsm_state' = st
                       /\ fsm_data' = dt
                  ELSE \E city \in find_city_by_alias(p.code) :
                       /\ out' = [ob EXCEPT !.reply = "link", !.city = city.code,
                                            !.link = city.channel_url]
                       /\ fsm_state' = cleared_st
                       /\ fsm_data' = cleared_dt
             ELSE /\ out' = [ob EXCEPT !.reply = "not_subscribed"]
                  /\ fsm_state' = st
                  /\ fsm_data' = dt
        ELSE IF p.h = "handle_city_text_input"
        THEN IF is_subscribed
             THEN /\ out' = [ob EXCEPT !.reply = "link", !.city = p.city.code,
                                       !.link = p.city.channel_url]
                  /\ fsm_state' = cleared_st
                  /\ fsm_data' = cleared_dt
             ELSE /\ out' = [ob EXCEPT !.reply = "subscribe_first",
                                       !.city = p.city.code]
                  /\ fsm_state' = st
                  /\ fsm_data' = [dt EXCEPT ![p.by] = p.city.code]
        ELSE /\ out' = [ob EXCEPT !.reply = IF is_subscribed THEN "subscribed"
                                                             ELSE "not_subscribed"]
             /\ fsm_state' = st
             /\ fsm_data' = dt

\* check_subscription_fresh(p.u, p.force) called by a handler: answered from
\* the cache, the handler runs on in the same step; otherwise the external
\* query is sent and the handler is suspended.
check_subscription_fresh(p, o, st, dt) ==
    IF CacheHit(p.u, p.force)
    THEN /\ Finish(p, subscription_cache[p.u][1], [o EXCEPT !.via = "cache"], st, dt)
         /\ pending' = pending
    ELSE /\ Len(pending) < MaxPending
         /\ pending' = Append(pending, p)
         /\ out' = [o EXCEPT !.via = "asked", !.vu = p.u, !.at = p.t]
         /\ fsm_state' = st
         /\ fsm_data' = dt

\* bot.get_chat_member of the i-th call in flight returns (a status) or
\* raises (an error): the cache is written and the handler runs on.
get_chat_member_returns(i, ans) ==
    /\ i \in DOMAIN pending
    /\ LET p == pending[i]
       IN  /\ subscription_cache' = CacheAfter(p.u, ans, p.t)
           /\ pending' = RemoveAt(pending, i)
           /\ Finish(p, Subscribed(ans),
                     [Base(p.h, p.by) EXCEPT !.via = "query", !.ans = ans],
                     fsm_state, fsm_data)
    /\ UNCHANGED <<now, cities_memo, limiter, db_users, sweep_at>>

\* ------------------------------------------- handlers: subscription checks
handle_check_subscription(u) ==
    LET r == check_rate_limit(u)
        o == Checked("handle_check_subscription", u, r)
    IN  /\ RateLimited(u, r)
        /\ IF Admitted(r)
           THEN check_subscription_fresh(
                    Call("handle_check_subscription", u, u, NoCity, << >>),
                    o, fsm_state, fsm_data)
           ELSE /\ out' = o
                /\ UNCHANGED <<fsm, pending>>
        /\ UNCHANGED <<now, cities_memo, subscription_cache, db_users, sweep_at>>

\* (variant: without the check of the sender's id)
cmd_admin_check_subscription_unguarded(by, user_id) ==
    LET o == Base("cmd_admin_check_subscription", by)
    IN  /\ check_subscription_fresh(
                Call("cmd_admin_check_subscription", by, user_id, NoCity, << >>),
                o, fsm_state, fsm_data)
        /\ UNCHANGED <<now, cities_memo, limiter, subscription_cache, db_users, sweep_at>>

\* /checksub USER_ID
cmd_admin_check_subscription(by, user_id) ==
    LET o == Base("cmd_admin_check_subscription", by)
    IN  /\ IF by # ADMIN_ID
           THEN /\ out' = o
                /\ UNCHANGED <<fsm, pending>>
           ELSE check_subscription_fresh(
                    Call("cmd_admin_check_subscription", by, user_id, NoCity, << >>),
                    o, fsm_state, fsm_data)
        /\ UNCHANGED <<now, cities_memo, limiter, subscription_cache, db_users, sweep_at>>

\* ----------------------------------------------------- handlers: the flow
\* create_cities_keyboard, in a handler whose observation is o: one button
\* per city of get_available_cities (and the button back to the menu)
create_cities_keyboard(o, db_answers) ==
    LET cities == get_available_cities(db_answers)
    IN  /\ _cities_cache' = cities.cache
        /\ _cities_cache_time' = cities.time
        /\ out' = [o EXCEPT
                        !.buttons = [i \in 1..Len(cities.ret) |-> cities.ret[i].code]]

\* db_answers: the storage query of get_available_cities, if the handler
\* comes to make it, returns (it raises otherwise)
handle_select_city(u, db_answers) ==
    LET r == check_rate_limit(u)
        o == Checked("handle_select_city", u, r)
    IN  /\ RateLimited(u, r)
        /\ IF Admitted(r)
           THEN /\ create_cities_keyboard([o EXCEPT !.reply = "cities"],
                                          db_answers)
                /\ fsm_state' = [fsm_state EXCEPT ![u] = "waiting_for_city"]
           ELSE /\ out' = o
                /\ UNCHANGED <<cities_memo, fsm_state>>
        /\ UNCHANGED <<now, subscription_cache, db_users, sweep_at,
                       fsm_data, pending>>

\* callback city_<city_code>
\* (variant: the selection is stored before the link is looked at)
process_city_selection_stores_first(u, city_code) ==
    LET o == Base("process_city_selection", u)
        found == find_city_by_alias(city_code)
        selected == [fsm_data EXCEPT ![u] = city_code]
    IN  /\ IF found = {}
           THEN /\ out' = [o EXCEPT !.reply = "unavailable"]
                /\ fsm_data' = selected
                /\ UNCHANGED <<fsm_state, pending>>
           ELSE \E city \in found :
                IF city.channel_url = ""
                THEN /\ out' = [o EXCEPT !.reply = "unavailable"]
                     /\ fsm_data' = selected
                     /\ UNCHANGED <<fsm_state, pending>>
                ELSE check_subscription_fresh(
                         Call("process_city_selection", u, u, city, city_code),
                         o, fsm_state, selected)
        /\ UNCHANGED <<now, cities_memo, limiter, subscription_cache, db_users, sweep_at>>

process_city_selection(u, city_code) ==
    LET o == Base("process_city_selection", u)
        found == find_city_by_alias(city_code)
    IN  /\ IF found = {}
           THEN /\ out' = [o EXCEPT !.reply = "unavailable"]
                /\ UNCHANGED <<fsm, pending>>
           ELSE \E city \in found :
                IF city.channel_url = ""
                THEN /\ out' = [o EXCEPT !.reply = "unavailable"]
                     /\ UNCHANGED <<fsm, pending>>
                ELSE check_subscription_fresh(
                         Call("process_city_selection", u, u, city, city_code),
                         o, fsm_state, [fsm_data EXCEPT ![u] = city_code])
        /\ UNCHANGED <<now, cities_memo, limiter, subscription_cache, db_users, sweep_at>>

\* callback check_subscription
\* (variant: the selection is taken out of the FSM data when it is read)
check_subscription_callback_forgets(u) ==
    LET o == Base("check_subscription_callback", u)
        city_code == fsm_data[u]
    IN  /\ IF city_code = << >>
           THEN /\ out' = [o EXCEPT !.reply = "city_not_selected"]
                /\ UNCHANGED <<fsm, pending>>
           ELSE check_subscription_fresh(
                    Call("check_subscription_callback", u, u, NoCity, city_code),
                    o, [fsm_state EXCEPT ![u] = ""],
                    [fsm_data EXCEPT ![u] = << >>])
        /\ UNCHANGED <<now, cities_memo, limiter, subscription_cache, db_users, sweep_at>>

check_subscription_callback(u) ==
    LET o == Base("check_subscription_callback", u)
        city_code == fsm_data[u]
    IN  /\ IF city_code = << >>
           THEN /\ out' = [o EXCEPT !.reply = "city_not_selected"]
                /\ UNCHANGED <<fsm, pending>>
           ELSE check_subscription_fresh(
                    Call("check_subscription_callback", u, u, NoCity, city_code),
                    o, fsm_state, fsm_data)
        /\ UNCHANGED <<now, cities_memo, limiter, subscription_cache, db_users, sweep_at>>

\* callback back_to_menu
back_to_menu(u) ==
    /\ fsm_state' = [fsm_state EXCEPT ![u] = ""]
    /\ fsm_data' = [fsm_data EXCEPT ![u] = << >>]
    /\ out' = [Base("back_to_menu", u) EXCEPT !.reply = "menu"]
    /\ UNCHANGED <<now, cities_memo, limiter, subscription_cache, db_users, sweep_at, pending>>

\* /cancel of a user whose state is not one of the two that a StateFilter
\* registered before Command("cancel") takes
cmd_cancel(u) ==
    LET current_state == fsm_state[u]
    IN  /\ current_state \notin {"waiting_for_broadcast_message", "waiting_for_city"}
        /\ fsm_state' = [fsm_state EXCEPT ![u] = ""]
        /\ fsm_data' = [fsm_data EXCEPT ![u] = << >>]
        /\ out' = [Base("cmd_cancel", u) EXCEPT
                        !.reply = IF current_state # "" THEN "cancelled"
                                                        ELSE "nothing_to_cancel"]
        /\ UNCHANGED <<now, cities_memo, limiter, subscription_cache, db_users, sweep_at,
                       pending>>

\* A text message (no button caption, no command) of a user whose state is
\* waiting_for_city
\* (variant: the "not yet available" reply ends the dialogue)
handle_city_text_input_clears(u, text, db_answers) ==
    LET r == check_rate_limit(u)
        o == Checked("handle_city_text_input", u, r)
        city_input == Strip(text)
        found == find_city(city_input)
    IN  /\ fsm_state[u] = "waiting_for_city"
        /\ RateLimited(u, r)
        /\ IF ~Admitted(r)
           THEN /\ out' = o
                /\ UNCHANGED <<cities_memo, fsm, pending>>
           ELSE IF found = {}
           THEN /\ create_cities_keyboard(
                     [o EXCEPT !.reply = "not_found", !.text = city_input],
                     db_answers)
                /\ UNCHANGED <<fsm, pending>>
           ELSE \E city \in found :
                IF city.channel_url # ""
                THEN /\ check_subscription_fresh(
                         Call("handle_city_text_input", u, u, city, city.code),
                         [o EXCEPT !.text = city_input], fsm_state, fsm_data)
                     /\ UNCHANGED cities_memo
                ELSE /\ create_cities_keyboard(
                          [o EXCEPT !.reply = "unavailable",
                                    !.city = city.code,
                                    !.text = city_input],
                          db_answers)
                     /\ fsm_state' = [fsm_state EXCEPT ![u] = ""]
                     /\ fsm_data' = [fsm_data EXCEPT ![u] = << >>]
                     /\ UNCHANGED pending
        /\ UNCHANGED <<now, subscription_cache, db_users, sweep_at>>

handle_city_text_input(u, text, db_answers) ==
    LET r == check_rate_limit(u)
        o == Checked("handle_city_text_input", u, r)
        city_input == Strip(text)
        found == find_city(city_input)
    IN  /\ fsm_state[u] = "waiting_for_city"
        /\ RateLimited(u, r)
        /\ IF ~Admitted(r)
           THEN /\ out' = o
                /\ UNCHANGED <<cities_memo, fsm, pending>>
           ELSE IF found = {}
           THEN /\ create_cities_keyboard(
                     [o EXCEPT !.reply = "not_found", !.text = city_input],
                     db_answers)
                /\ UNCHANGED <<fsm, pending>>
           ELSE \E city \in found :
                IF city.channel_url # ""
                THEN /\ check_subscription_fresh(
                         Call("handle_city_text_input", u, u, city, city.code),
                         [o EXCEPT !.text = city_input], fsm_state, fsm_data)
                     /\ UNCHANGED cities_memo
                ELSE /\ create_cities_keyboard(
                          [o EXCEPT !.reply = "unavailable",
                                    !.city = city.code,
                                    !.text = city_input],
                          db_answers)
                     /\ UNCHANGED <<fsm, pending>>
        /\ UNCHANGED <<now, subscription_cache, db_users, sweep_at>>

\* ------------------------------------------------------------ broadcast
\* The text "/cancel"
s_cancel == <<47, 99, 97, 110, 99, 101, 108>>
\* An ordinary text an admin broadcasts: "news".
s_news == <<110, 101, 119, 115>>

\* callback admin_broadcast: the prompt ("to cancel: /cancel") and
\* state.set_state(waiting_for_broadcast_message), for the admin only
admin_broadcast_callback(u) ==
    /\ IF u # ADMIN_ID
       THEN /\ out' = [Base("admin_broadcast_callback", u) EXCEPT
                            !.reply = "no_access"]
            /\ UNCHANGED fsm_state
       ELSE /\ out' = [Base("admin_broadcast_callback", u) EXCEPT
                            !.reply = "broadcast_prompt"]
            /\ fsm_state' = [fsm_state EXCEPT
                                ![u] = "waiting_for_broadcast_message"]
    /\ UNCHANGED <<now, cities_memo, limiter, subscription_cache, db_users,
                   sweep_at, fsm_data, pending>>

\* SELECT user_id, username, first_name FROM users WHERE NOT is_blocked
get_all_users == {x \in DOMAIN db_users : ~db_users[x].is_blocked}

\* What bot.send_message does for one recipient
SendOutcomes == {"ok", "TelegramForbiddenError", "Exception"}

\* process_broadcast, the message handler of the state
\* waiting_for_broadcast_message, for a text message; outcome gives what
\* send_message does for each recipient.
process_broadcast(u, text_content, outcome) ==
    LET o == [Base("process_broadcast", u) EXCEPT !.text = text_content]
        users == get_all_users
        forbidden == {x \in users : outcome[x] = "TelegramForbiddenError"}
    IN  /\ fsm_state[u] = "waiting_for_broadcast_message"
        /\ IF u # ADMIN_ID
           THEN /\ out' = o
                /\ UNCHANGED <<fsm, db_users>>
           ELSE IF users = {}
           THEN /\ out' = [o EXCEPT !.reply = "no_users"]
                /\ fsm_state' = [fsm_state EXCEPT ![u] = ""]
                /\ fsm_data' = [fsm_data EXCEPT ![u] = << >>]
                /\ UNCHANGED db_users
           ELSE IF text_content = << >>
           THEN /\ out' = [o EXCEPT !.reply = "no_content"]
                /\ UNCHANGED <<fsm, db_users>>
           ELSE /\ out' = [o EXCEPT !.reply = "broadcast_done",
                                    !.sent = {x \in users : outcome[x] = "ok"}]
                /\ db_users' = [x \in DOMAIN db_users |->
                                    IF x \in forbidden
                                    THEN [is_blocked |-> TRUE,
                                          block_reason |-> "blocked"]
                                    ELSE db_users[x]]
                /\ fsm_state' = [fsm_state EXCEPT ![u] = ""]
                /\ fsm_data' = [fsm_data EXCEPT ![u] = << >>]
        /\ UNCHANGED <<now, cities_memo, limiter, subscription_cache,
                       sweep_at, pending>>

\* /admin: for the admin, state.set_state(admin_menu) and the panel with
\* the counts of db.get_users_count() and get_available_cities()
cmd_admin(u, db_answers) ==
    LET cities == get_available_cities(db_answers)
    IN  /\ IF u # ADMIN_ID
           THEN /\ out' = [Base("cmd_admin", u) EXCEPT !.reply = "not_recognized"]
                /\ UNCHANGED <<cities_memo, fsm_state>>
           ELSE /\ fsm_state' = [fsm_state EXCEPT ![u] = "admin_menu"]
                /\ _cities_cache' = cities.cache
                /\ _cities_cache_time' = cities.time
                /\ out' = [Base("cmd_admin", u) EXCEPT !.reply = "admin_panel"]
        /\ UNCHANGED <<now, limiter, subscription_cache, db_users, sweep_at,
                       fsm_data, pending>>

\* /stats
cmd_stats(u, db_answers) ==
    LET cities == get_available_cities(db_answers)
    IN  /\ IF u # ADMIN_ID
           THEN /\ out' = [Base("cmd_stats", u) EXCEPT !.reply = "not_recognized"]
                /\ UNCHANGED cities_memo
           ELSE /\ _cities_cache' = cities.cache
                /\ _cities_cache_time' = cities.time
                /\ out' = [Base("cmd_stats", u) EXCEPT !.reply = "stats"]
        /\ UNCHANGED <<now, limiter, subscription_cache, db_users, sweep_at,
                       fsm, pending>>

\* callback admin_stats: db.log_admin_action(id, 'view_stats'), then the
\* figures of db.get_admin_stats() and get_available_cities()
admin_stats_callback(u, db_answers) ==
    LET cities == get_available_cities(db_answers)
    IN  /\ IF u # ADMIN_ID
           THEN /\ out' = [Base("admin_stats_callback", u) EXCEPT
                                !.reply = "no_access"]
                /\ UNCHANGED cities_memo
           ELSE /\ _cities_cache' = cities.cache
                /\ _cities_cache_time' = cities.time
                /\ out' = [Base("admin_stats_callback", u) EXCEPT
                                !.reply = "stats", !.logged = "view_stats"]
        /\ UNCHANGED <<now, limiter, subscription_cache, db_users, sweep_at,
                       fsm, pending>>

\* callback admin_users: the figures of db.get_admin_stats()
admin_users_callback(u) ==
    /\ out' = [Base("admin_users_callback", u) EXCEPT
                    !.reply = IF u # ADMIN_ID THEN "no_access" ELSE "users"]
    /\ UNCHANGED <<now, cities_memo, limiter, subscription_cache, db_users,
                   sweep_at, fsm, pending>>

\* callback admin_cities: the first cities of get_available_cities()
admin_cities_callback(u, db_answers) ==
    LET cities == get_available_cities(db_answers)
    IN  /\ IF u # ADMIN_ID
           THEN /\ out' = [Base("admin_cities_callback", u) EXCEPT
                                !.reply = "no_access"]
                /\ UNCHANGED cities_memo
           ELSE /\ _cities_cache' = cities.cache
                /\ _cities_cache_time' = cities.time
                /\ out' = [Base("admin_cities_callback", u) EXCEPT
                                !.reply = "cities"]
        /\ UNCHANGED <<now, limiter, subscription_cache, db_users, sweep_at,
                       fsm, pending>>

\* A text message "/cancel" of user u arrives: the router tries the message
\* handlers in the order of their registration and the first whose filter
\* passes handles it.  No handler registered before process_broadcast
\* matches "/cancel"; process_broadcast and handle_city_text_input (state
\* filters) are registered before cmd_cancel.
message_cancel(u, outcome) ==
    IF fsm_state[u] = "waiting_for_broadcast_message"
    THEN process_broadcast(u, s_cancel, outcome)
    ELSE IF fsm_state[u] = "waiting_for_city"
    THEN handle_city_text_input(u, s_cancel, TRUE)
    ELSE cmd_cancel(u)

\* ------------------------------------------------------------------ clock
\* The clock moves on to the next of the instants at which the model
\* observes the program.
NextInstant(instants) ==
    LET later == {t \in instants : t > now}
    IN  CHOOSE t \in later : \A s \in later : t <= s

Tick(instants) ==
    /\ \E t \in instants : t > now
    /\ now' = NextInstant(instants)
    /\ out' = Base("tick", 0)
    /\ UNCHANGED <<cities_memo, limiter, subscription_cache,
                   db_users, sweep_at, fsm, pending>>

\* ------------------------------------------------------------------- Init
\* `_cities_cache = {}`, `_cities_cache_time = 0`: no list of cities is
\* cached.
NoCitiesCached ==
    /\ _cities_cache = << >>
    /\ _cities_cache_time = 0

Init ==
    /\ now = 0
    /\ user_message_counts = Empty
    /\ last_message_times = Empty
    /\ admitted_at = Empty
    /\ blocked_users = {}
    /\ subscription_cache = Empty
    /\ spam_tasks = {}
    /\ db_users = Empty
    /\ sweep_at = 0
    /\ fsm_state = [u \in Users |-> ""]
    /\ fsm_data = [u \in Users |-> << >>]
    /\ pending = << >>
    /\ NoCitiesCached
    /\ out = Base("init", 0)

\* ------------------------------------------------- the limiter on its own
\* The instants at which the model observes the program: the first seconds,
\* and the seconds at which entries of the first seconds reach `age`.
Around(age) == (0..EarlySpan) \cup (age..(age + EarlySpan))

LimiterInstants == Around(RATE_LIMIT_WINDOW)

TickLimiter == Tick(LimiterInstants)

NextLimiter ==
    \/ \E u \in Users : handle_other_messages(u)
    \/ \E u \in Users : admin_clear_cache(u)
    \/ cleanup_caches_periodically
    \/ TickLimiter

SpecLimiter == Init /\ [][NextLimiter]_vars

\* --------------------------------------- check_rate_limit on any state
\* The limiter state of one user is drawn: any window of at most
\* RATE_LIMIT_THRESHOLD timestamps of the first seconds, any last-event
\* time, blocked or not.
DrawnStamps == {0, EarlySpan}

DrawnWindows ==
    {w \in UNION {[1..n -> DrawnStamps] : n \in 0..RATE_LIMIT_THRESHOLD} :
        \A i \in 1..(Len(w) - 1) : w[i] <= w[i + 1]}

InitAdmit ==
    /\ now = 0
    /\ \E u \in Users :
         /\ \E w \in DrawnWindows :
              user_message_counts \in {Empty, [x \in {u} |-> w]}
         /\ \E t \in DrawnStamps :
              last_message_times \in {Empty, [x \in {u} |-> t]}
         /\ blocked_users \in {{}, {u}}
         /\ db_users \in {Empty, [x \in {u} |-> [is_blocked |-> FALSE,
                                                  block_reason |-> ""]]}
    /\ subscription_cache = Empty
    /\ spam_tasks = {}
    /\ admitted_at = last_message_times
    /\ sweep_at = 0
    /\ fsm_state = [u \in Users |-> ""]
    /\ fsm_data = [u \in Users |-> << >>]
    /\ pending = << >>
    /\ NoCitiesCached
    /\ out = Base("init", 0)

NextAdmit ==
    \/ \E u \in Users : handle_other_messages(u)
    \/ \E u \in Users : spam_task_runs(u)
    \/ \E u \in Users : admin_clear_cache(u)
    \/ cleanup_caches_periodically
    \/ TickLimiter

SpecAdmit == InitAdmit /\ [][NextAdmit]_vars


\* ----------------------------------------------- the verifier and its cache
\* No query in flight: an event that arrives then is handled with no other
\* check overlapping it.
Quiet == pending = << >>

\* Checks made by handlers that do not pass the limiter, one at a time, at
\* the first seconds and at the seconds at which the entries of the first
\* seconds reach the age of 30.
VerifierInstants == Around(SUBSCRIPTION_CACHE_TTL)

TickVerifier == Tick(VerifierInstants)

NextVerifier ==
    \/ \E u \in Users : Quiet /\ process_city_selection(u, k_y_i_v)
    \/ \E u \in Users : Quiet /\ check_subscription_callback(u)
    \/ \E by, u \in Users : Quiet /\ cmd_admin_check_subscription(by, u)
    \/ \E i \in 1..MaxPending, ans \in Answers : get_chat_member_returns(i, ans)
    \/ \E u \in Users : admin_clear_cache(u)
    \/ cleanup_caches_periodically
    \/ TickVerifier

SpecVerifier == Init /\ [][NextVerifier]_vars

\* ------------------------------------------------------- the gated flow
\* The handlers of the city flow, one event at a time, at two instants far
\* enough apart for the limiter to admit an event of a user at each.
FlowInstants == {0, MESSAGE_COOLDOWN}

TickFlow == Tick(FlowInstants)

NextFlow ==
    \/ \E u \in Users : handle_select_city(u, TRUE)
    \/ \E u \in Users, text \in Texts : Quiet /\ handle_city_text_input(u, text, TRUE)
    \/ \E u \in Users, city_code \in Codes : Quiet /\ process_city_selection(u, city_code)
    \/ \E u \in Users : Quiet /\ check_subscription_callback(u)
    \/ \E u \in Users : Quiet /\ handle_check_subscription(u)
    \/ \E u \in Users : back_to_menu(u)
    \/ \E u \in Users : cmd_cancel(u)
    \/ \E i \in 1..MaxPending, ans \in Answers : get_chat_member_returns(i, ans)
    \/ TickFlow

SpecFlow == Init /\ [][NextFlow]_vars

\* The flow that starts from a typed city name: the selection is stored by
\* handle_city_text_input only.
NextTextFlow ==
    \/ \E u \in Users : handle_select_city(u, TRUE)
    \/ \E u \in Users, text \in Texts : Quiet /\ handle_city_text_input(u, text, TRUE)
    \/ \E u \in Users : Quiet /\ check_subscription_callback(u)
    \/ \E i \in 1..MaxPending, ans \in Answers : get_chat_member_returns(i, ans)
    \/ TickFlow

SpecTextFlow == Init /\ [][NextTextFlow]_vars

\* ---------------------------------------------------- overlapping checks
\* Updates are handled as concurrent tasks (dp.start_polling): an event may
\* arrive while the queries of earlier ones are in flight, and the answers
\* may come back in any order.
NextConcurrent ==
    \/ \E u \in Users, city_code \in Codes : process_city_selection(u, city_code)
    \/ \E u \in Users : check_subscription_callback(u)
    \/ \E i \in 1..MaxPending, ans \in Answers : get_chat_member_returns(i, ans)
    \/ TickFlow

SpecConcurrent == Init /\ [][NextConcurrent]_vars

\* ------------------------------------------------- the resolver alone
\* find_city called with the text of a call not yet made; it returns one
\* of the candidates, or None (city << >>).
find_city_returns ==
    LET city_input == out.text
        o == [Base("find_city", 0) EXCEPT !.text = city_input]
        found == find_city(city_input)
    IN  /\ out.op = "call_find_city"
        /\ IF found = {}
           THEN out' = [o EXCEPT !.reply = "None"]
           ELSE \E city \in found :
                    out' = [o EXCEPT !.reply = "city", !.city = city.code,
                                     !.link = city.channel_url]
        /\ UNCHANGED <<now, cities_memo, limiter, subscription_cache,
                       db_users, sweep_at, fsm, pending>>

\* The first characters of the aliases: texts that several cities match by
\* prefix.
PrefixInputs ==
    {SubSeq(ca.alias, 1, n) : ca \in Directory.city_aliases, n \in 1..MaxPrefix}

\* Texts with the characters LIKE reads as wildcards: "%", "_", and each
\* alias with "_" in the place of its second character.
PatternInputs ==
    {<<37>>, <<95>>}
        \cup {[ca.alias EXCEPT ![2] = 95] :
                    ca \in {a \in Directory.city_aliases : Len(a.alias) >= 2}}

\* The inputs: every alias of the directory in every casing, what strip()
\* leaves of a blank text, the prefixes and the texts with wildcards.
ResolverInputs ==
    UNION {Casings(ca.alias) : ca \in Directory.city_aliases}
        \cup {Strip(text) : text \in BlankTexts}
        \cup PrefixInputs
        \cup PatternInputs

\* The state as constructed, and a call of find_city about to be made
InitResolver ==
    /\ now = 0
    /\ user_message_counts = Empty
    /\ last_message_times = Empty
    /\ admitted_at = Empty
    /\ blocked_users = {}
    /\ subscription_cache = Empty
    /\ spam_tasks = {}
    /\ db_users = Empty
    /\ sweep_at = 0
    /\ fsm_state = [u \in Users |-> ""]
    /\ fsm_data = [u \in Users |-> << >>]
    /\ pending = << >>
    /\ NoCitiesCached
    /\ \E city_input \in ResolverInputs :
         out = [Base("call_find_city", 0) EXCEPT !.text = city_input]

NextResolver == find_city_returns

SpecResolver == InitResolver /\ [][NextResolver]_vars

\* ------------------------------------------- the list of cities on offer
\* The handlers that show the city keyboard, with a storage query that
\* answers or raises, at instants around the lifetime of the cached list.
CitiesInstants == Around(CITIES_CACHE_TTL)

TickCities == Tick(CitiesInstants)

\* The typed texts that are answered with the keyboard: a city without a
\* link, no city
KeyboardTexts == {t_e_r_padded, z_z}

NextCities ==
    \/ \E u \in Users, db_answers \in BOOLEAN : handle_select_city(u, db_answers)
    \/ \E u \in Users, text \in KeyboardTexts, db_answers \in BOOLEAN :
           handle_city_text_input(u, text, db_answers)
    \/ TickCities

SpecCities == Init /\ [][NextCities]_vars

\* ------------------------------------------------------ seeding at start
\* What a database file may hold when the bot starts: rows an earlier start
\* wrote from an earlier state of the catalog.  Cities: kyiv before it had a
\* link, kharkiv as now, ternopil under another name.  Aliases: one the
\* catalog still has, one it has no more, and strings that are the code or
\* an alias of another city.
k_h_a_r_k_i_v == <<107, 104, 97, 114, 107, 105, 118>>

EarlierCities ==
    {[CityRow(LastEntry(k_y_i_v)) EXCEPT !.channel_url = ""],
     CityRow(LastEntry(k_h_a_r_k_i_v)),
     [CityRow(LastEntry(t_e_r_n_o_p_i_l)) EXCEPT !.name_uk = t_e_r_n_o_p_i_l]}

EarlierAliases ==
    {[city_code |-> k_y_i_v, alias |-> k_i_e_v],
     [city_code |-> k_y_i_v, alias |-> z_z],
     [city_code |-> k_y_i_v, alias |-> k_h_a_r_k_i_v],
     [city_code |-> k_h_a_r_k_i_v, alias |-> k_i_e_v],
     [city_code |-> t_e_r_n_o_p_i_l, alias |-> Upper(k_i_e_v)]}

DrawnTables ==
    {[cities |-> cs, city_aliases |-> as] :
        cs \in SUBSET EarlierCities, as \in SUBSET EarlierAliases}

\* Observation of a start: the tables of the file now, and as the first
\* start found them; run counts the starts.
Seeding(op, n, tables, initial) ==
    [tables |-> tables, initial |-> initial] @@ [Base(op, 0) EXCEPT !.run = n]

\* main: `await db.seed_cities_data()`, on the tables the file holds.  A
\* later start of the bot runs it again on what this one leaves.
main_seed_cities_data ==
    /\ out.op \in {"start", "seed_cities_data"}
    /\ out.run < MaxSeeds
    /\ out' = Seeding("seed_cities_data", out.run + 1,
                      seed_cities_data(out.tables), out.initial)
    /\ UNCHANGED <<now, cities_memo, limiter, subscription_cache,
                   db_users, sweep_at, fsm, pending>>

InitSeed ==
    /\ now = 0
    /\ user_message_counts = Empty
    /\ last_message_times = Empty
    /\ admitted_at = Empty
    /\ blocked_users = {}
    /\ subscription_cache = Empty
    /\ spam_tasks = {}
    /\ db_users = Empty
    /\ sweep_at = 0
    /\ fsm_state = [u \in Users |-> ""]
    /\ fsm_data = [u \in Users |-> << >>]
    /\ pending = << >>
    /\ NoCitiesCached
    /\ \E tables \in DrawnTables : out = Seeding("start", 0, tables, tables)

NextSeed == main_seed_cities_data

SpecSeed == InitSeed /\ [][NextSeed]_vars

\* ------------------------------------------------- the janitor's loop
\* The janitor task beside the limiter.  Fairness: the timer of the event
\* loop ends every sleep, and the task, once woken, runs its sweep (to the
\* end or to an exception).
sweep_runs ==
    \/ cleanup_caches_periodically
    \/ \E point \in RaisePoints : cleanup_raises(point)

NextJanitor ==
    \/ \E u \in Users : handle_other_messages(u)
    \/ sleep_ends
    \/ cleanup_caches_periodically
    \/ \E point \in RaisePoints : cleanup_raises(point)
    \/ TickLimiter

SpecJanitor ==
    /\ Init
    /\ [][NextJanitor]_vars
    /\ WF_vars(sleep_ends)
    /\ WF_vars(sweep_runs)

\* ------------------------------------------- handlers behind the limiter
\* The message handlers that start with the admit-check, on any limiter
\* state: one user is drawn with an empty or a full window, with or without
\* a last-event time, blocked or not, in either FSM state, with or without
\* a stored selection and a stored row.
FullWindow == [i \in 1..RATE_LIMIT_THRESHOLD |-> 0]

InitDrop ==
    /\ now = 0
    /\ \E u \in Users :
         /\ user_message_counts \in {Empty, [x \in {u} |-> FullWindow]}
         /\ last_message_times \in {Empty, [x \in {u} |-> 0]}
         /\ admitted_at = last_message_times
         /\ blocked_users \in {{}, {u}}
         /\ db_users \in {Empty, [x \in {u} |-> [is_blocked |-> FALSE,
                                                  block_reason |-> ""]]}
         /\ \E st \in {"", "waiting_for_city"} :
              fsm_state = [x \in Users |-> IF x = u THEN st ELSE ""]
         /\ \E dt \in {<< >>, k_y_i_v} :
              fsm_data = [x \in Users |-> IF x = u THEN dt ELSE << >>]
    /\ subscription_cache = Empty
    /\ spam_tasks = {}
    /\ sweep_at = 0
    /\ pending = << >>
    /\ NoCitiesCached
    /\ out = Base("init", 0)

NextDrop ==
    \/ \E u \in Users : cmd_start(u)
    \/ \E u \in Users : handle_select_city(u, TRUE)
    \/ \E u \in Users : Quiet /\ handle_check_subscription(u)
    \/ \E u \in Users, text \in Texts : Quiet /\ handle_city_text_input(u, text, TRUE)
    \/ \E u \in Users : handle_other_messages(u)
    \/ \E i \in 1..MaxPending, ans \in Answers : get_chat_member_returns(i, ans)
    \/ \E u \in Users : spam_task_runs(u)
    \/ TickFlow

SpecDrop == InitDrop /\ [][NextDrop]_vars

\* ------------------------------------------ the limiter and the janitor
\* Admit-checks and sweeps with no admin reset, at the seconds around the
\* cooldown and at the seconds at which the events of those reach the age
\* of the window.
CooldownInstants ==
    (0..(MESSAGE_COOLDOWN + EarlySpan))
        \cup (RATE_LIMIT_WINDOW..(RATE_LIMIT_WINDOW + MESSAGE_COOLDOWN + EarlySpan))

TickCooldown == Tick(CooldownInstants)

NextCooldown ==
    \/ \E u \in Users : handle_other_messages(u)
    \/ cleanup_caches_periodically
    \/ TickCooldown

SpecCooldown == Init /\ [][NextCooldown]_vars

\* ------------------------------------------- the limiter, second by second
\* Admit-checks, sweeps and admin resets at the seconds that are
\* MESSAGE_COOLDOWN apart (the fastest admitted sequence), until the events
\* of the first seconds have left the window, and at the seconds after
\* RATE_LIMIT_WINDOW.
ThresholdInstants ==
    {t \in 0..(RATE_LIMIT_WINDOW + MESSAGE_COOLDOWN) : t % MESSAGE_COOLDOWN = 0}
        \cup (RATE_LIMIT_WINDOW..(RATE_LIMIT_WINDOW + EarlySpan))

TickThreshold == Tick(ThresholdInstants)

NextThreshold ==
    \/ \E u \in Users : handle_other_messages(u)
    \/ admin_clear_cache(ADMIN_ID)
    \/ cleanup_caches_periodically
    \/ TickThreshold

SpecThreshold == Init /\ [][NextThreshold]_vars

\* ------------------------------------------ the janitor and the verdicts
\* The cache holds the verdicts of the users who were verified at second 0:
\* the users of the model alone, or a crowd of MAX_CACHE_SIZE or of
\* MAX_CACHE_SIZE + 1 users.  Forced re-checks of the users of the model
\* and one sweep follow, at the first seconds and at the seconds at which
\* the entries of the first seconds reach the ages of 30 and of 60.
CrowdSizes == {NUsers, MAX_CACHE_SIZE, MAX_CACHE_SIZE + 1}

InitSweep ==
    /\ now = 0
    /\ user_message_counts = Empty
    /\ last_message_times = Empty
    /\ admitted_at = Empty
    /\ blocked_users = {}
    /\ \E n \in CrowdSizes : subscription_cache = [k \in 1..n |-> <<TRUE, 0>>]
    /\ spam_tasks = {}
    /\ db_users = Empty
    /\ sweep_at = 0
    /\ fsm_state = [u \in Users |-> ""]
    /\ fsm_data = [u \in Users |-> << >>]
    /\ pending = << >>
    /\ NoCitiesCached
    /\ out = Base("init", 0)

SweepInstants ==
    Around(SUBSCRIPTION_CACHE_TTL)
        \cup (SUBSCRIPTION_SWEEP_AGE..(SUBSCRIPTION_SWEEP_AGE + EarlySpan + 1))

TickSweep == Tick(SweepInstants)

\* One answer that grants and one failure of the query.
SweepAnswers == {"member", "Exception"}

NextSweepSpec ==
    \/ \E u \in Users : Quiet /\ cmd_admin_check_subscription(ADMIN_ID, u)
    \/ \E i \in 1..MaxPending, ans \in SweepAnswers : get_chat_member_returns(i, ans)
    \/ cleanup_caches_periodically
    \/ TickSweep

SpecSweep == InitSweep /\ [][NextSweepSpec]_vars

\* ------------------------------------------------------------- /cancel
\* Users register with /start, open the city dialogue, the admin opens the
\* broadcast dialogue, and "/cancel" is sent in any FSM state.
NextCancel ==
    \/ \E u \in Users : cmd_start(u)
    \/ \E u \in Users : handle_select_city(u, TRUE)
    \/ \E u \in Users : admin_broadcast_callback(u)
    \/ \E u \in Users, outcome \in [Users -> SendOutcomes] : message_cancel(u, outcome)
    \/ \E u \in Users, outcome \in [Users -> SendOutcomes] :
            process_broadcast(u, s_news, outcome)
    \/ TickFlow

SpecCancel == Init /\ [][NextCancel]_vars

\* ------------------------------------------------------ the admin's requests
\* Every admin operation requested by every user, among the events that
\* fill the limiter's collections, the users table and the subscription
\* cache, all within one second.
AdminAnswers == {"member", "left"}

NextAdmin ==
    \/ \E u \in Users : cmd_start(u)
    \/ \E u \in Users, db_answers \in BOOLEAN : cmd_admin(u, db_answers)
    \/ \E u \in Users, db_answers \in BOOLEAN : cmd_stats(u, db_answers)
    \/ \E u \in Users, db_answers \in BOOLEAN : admin_stats_callback(u, db_answers)
    \/ \E u \in Users : admin_users_callback(u)
    \/ \E u \in Users, db_answers \in BOOLEAN : admin_cities_callback(u, db_answers)
    \/ \E u \in Users : admin_clear_cache(u)
    \/ \E u \in Users : admin_broadcast_callback(u)
    \/ \E by, u \in Users : Quiet /\ cmd_admin_check_subscription(by, u)
    \/ \E u \in Users, outcome \in [Users -> SendOutcomes] :
            process_broadcast(u, s_news, outcome)
    \/ \E i \in 1..MaxPending, ans \in AdminAnswers : get_chat_member_returns(i, ans)

SpecAdmin == Init /\ [][NextAdmin]_vars

\* ================================================================ claims
\* A step that made the admit-check of user u (any handler with a limiter
\* call).
CheckedStep(u) == out'.u = u /\ out'.rl # "none"

\* C1: a user who is in blocked_users when check_rate_limit is called is
\* rejected, whatever the window and the last-event time hold.
C1_BlockedNeverAdmitted ==
    [][\A u \in Users :
          (u \in blocked_users /\ CheckedStep(u)) => out'.rl = "reject"]_vars

\* C1 witness: a blocked user has just been rejected although the window is
\* empty or aged out and the cooldown has elapsed.
C1_Witness ==
    /\ out.rl = "reject"
    /\ out.u \in blocked_users
    /\ Prune(Window(out.u), now) = << >>
    /\ ~InCooldown(out.u)

\* C2: from the limiter state as constructed, the 6th of six admit-checks of
\* one user made within a second is rejected and leaves the user in
\* blocked_users, and so does a 7th.
C2_BurstBlocks ==
    out.run >= RATE_LIMIT_THRESHOLD + 1 =>
        (out.rl = "reject" /\ out.u \in blocked_users)

\* The state of a user after one admitted check and nothing else.
FirstCallOnly(u) ==
    /\ u \notin blocked_users
    /\ u \in DOMAIN last_message_times
    /\ Window(u) = <<last_message_times[u]>>

NoLimiterState(u) ==
    /\ u \notin blocked_users
    /\ u \notin DOMAIN last_message_times
    /\ u \notin DOMAIN user_message_counts

\* C3: the first admit-check of a user with no limiter state is admitted; a
\* second one less than MESSAGE_COOLDOWN later is rejected, with fewer than
\* RATE_LIMIT_THRESHOLD entries in the window, and does not block the user.
C3_CooldownRejects ==
    [][\A u \in Users :
          /\ (NoLimiterState(u) /\ CheckedStep(u)) =>
                (out'.rl = "admit" /\ FirstCallOnly(u)' /\ last_message_times'[u] = now)
          /\ (/\ FirstCallOnly(u)
              /\ now - last_message_times[u] < MESSAGE_COOLDOWN
              /\ CheckedStep(u)) =>
                (/\ out'.rl = "reject"
                 /\ Len(user_message_counts'[u]) < RATE_LIMIT_THRESHOLD
                 /\ blocked_users' = blocked_users)]_vars

\* C3 witness: the second check of a user, one second after the first, has
\* just been rejected and the user is not blocked.
C3_Witness ==
    /\ out.rl = "reject"
    /\ out.u \in Users
    /\ FirstCallOnly(out.u)
    /\ now - last_message_times[out.u] = 1

\* The handlers that can send a city invite link.
LinkHandlers ==
    {"process_city_selection", "check_subscription_callback",
     "handle_city_text_input"}

\* C4: an invite link is sent only by a step of one of the three link
\* handlers in which the verifier returned True for the user the event came
\* from; a step with a False result, or with no result, sends no link.
C4_LinkOnlyAfterYes ==
    out.link # "" =>
        (out.op \in LinkHandlers /\ out.sub = "yes" /\ out.vu = out.u)

\* C4 witness: the text handler has just sent the link of the city it
\* resolved, the verifier having said yes for the sender.
C4_Witness ==
    /\ out.op = "handle_city_text_input"
    /\ out.link # ""
    /\ out.sub = "yes"
    /\ out.vu = out.u

\* C5: two checks of one user with force_refresh=False made less than 30
\* apart cause one external query, not two: never are two queries of such
\* checks in flight together.
C5_OneQueryPerTTL ==
    \A i, j \in DOMAIN pending :
        (/\ i < j
         /\ pending[i].u = pending[j].u
         /\ ~pending[i].force
         /\ ~pending[j].force)
        => pending[j].t - pending[i].t >= SUBSCRIPTION_CACHE_TTL

\* C6: a result returned without an external query is the boolean of a cache
\* entry of that user whose age is strictly less than 30; a check that finds
\* an entry of age 30 or more, or none, sends the query.
C6_ServedOnlyFresh ==
    [][/\ out'.via = "cache" =>
            /\ out'.vu \in DOMAIN subscription_cache
            /\ now - subscription_cache[out'.vu][2] < SUBSCRIPTION_CACHE_TTL
            /\ out'.sub = YesNo(subscription_cache[out'.vu][1])
       /\ \A u \in Users :
            (/\ out'.vu = u
             /\ out'.via # "query"
             /\ \/ u \notin DOMAIN subscription_cache
                \/ now - subscription_cache[u][2] >= SUBSCRIPTION_CACHE_TTL)
            => (out'.via = "asked" /\ Len(pending') = Len(pending) + 1)]_vars

\* C6 witness: a result has just been served from an entry of age 29.
C6_Witness ==
    /\ out.via = "cache"
    /\ out.vu \in DOMAIN subscription_cache
    /\ now - subscription_cache[out.vu][2] = SUBSCRIPTION_CACHE_TTL - 1

\* C7: when the external query fails (forbidden, or any other exception) the
\* verifier returns False to the handler, which goes on to its reply, and no
\* link is sent.
C7_ErrorsFailClosed ==
    out.ans \in Errors => (out.sub = "no" /\ out.link = "" /\ out.reply # "")

\* C7 witness: the query of a forced re-check has raised the forbidden error
\* and the callback has answered that no subscription was found.
C7_Witness ==
    /\ out.ans = "TelegramForbiddenError"
    /\ out.op = "check_subscription_callback"
    /\ out.reply = "not_subscribed"
    /\ out.link = ""

\* C8: when the external query returns a status, the verifier returns True
\* exactly for member, administrator and creator.
C8_MemberStatuses ==
    out.ans \in Statuses =>
        (out.sub = "yes" <=> out.ans \in {"member", "administrator", "creator"})

\* C8 witness: the platform has reported the owner and the verifier has
\* returned True.
C8_Witness == out.ans = "creator" /\ out.sub = "yes"

\* C9: a check that made the external query leaves, whatever the outcome,
\* subscription_cache[user] = (the boolean returned, the current_time of that
\* check); and a check with force_refresh=False that finds an entry False of
\* age less than 30 returns False without a query.
C9_EveryOutcomeCached ==
    [][/\ out'.via = "query" =>
            /\ out'.vu \in DOMAIN subscription_cache'
            /\ subscription_cache'[out'.vu] = <<out'.sub = "yes", out'.at>>
       /\ \A u \in Users :
            (/\ out'.vu = u
             /\ out'.op = "process_city_selection"
             /\ out'.via # "query"
             /\ u \in DOMAIN subscription_cache
             /\ subscription_cache[u][1] = FALSE
             /\ now - subscription_cache[u][2] < SUBSCRIPTION_CACHE_TTL)
            => (out'.via = "cache" /\ out'.sub = "no" /\ pending' = pending)]_vars

\* C9 witness: a query sent a second ago has just failed and the entry of
\* the user is False with the time of the call.
C9_Witness ==
    /\ out.via = "query"
    /\ out.ans \in Errors
    /\ out.vu \in DOMAIN subscription_cache
    /\ subscription_cache[out.vu] = <<FALSE, out.at>>
    /\ out.at < now

CityOf(code) == CHOOSE c \in Directory.cities : c.code = code

\* C10: the text "kiev" resolves to the city kyiv; when the platform reports
\* a non-member status to the check of the text handler, the user gets the
\* subscription prompt, no link, and kyiv is stored as the selection; a
\* check_subscription callback of a user with a stored selection always
\* sends the external query; when the platform answers member to the check
\* of a callback whose selection is kyiv, the link of kyiv is sent to that
\* user.
C10_EndToEnd ==
    [][/\ find_city(Strip(k_i_e_v)) = {CityOf(k_y_i_v)}
       /\ \A u \in Users :
            /\ (/\ out'.op = "handle_city_text_input"
                /\ out'.u = u
                /\ out'.city = k_y_i_v
                /\ out'.ans \in Statuses \ {"member", "administrator", "creator"})
               => (/\ out'.reply = "subscribe_first"
                   /\ out'.link = ""
                   /\ fsm_data'[u] = k_y_i_v)
            /\ (/\ fsm_data[u] # << >>
                /\ out'.op = "check_subscription_callback"
                /\ out'.u = u
                /\ out'.via # "query")
               => out'.via = "asked"
            /\ (/\ pending # << >>
                /\ pending[1].h = "check_subscription_callback"
                /\ pending[1].by = u
                /\ pending[1].code = k_y_i_v
                /\ out'.via = "query"
                /\ out'.ans = "member")
               => (/\ out'.u = u
                   /\ out'.vu = u
                   /\ out'.link = CityOf(k_y_i_v).channel_url)]_vars

\* C10 witness: the forced re-check of a callback has been answered member
\* and the link of kyiv has been sent; the selection is cleared.
C10_Witness ==
    /\ out.op = "check_subscription_callback"
    /\ out.ans = "member"
    /\ out.city = k_y_i_v
    /\ out.link = CityOf(k_y_i_v).channel_url
    /\ out.u \in Users
    /\ fsm_data[out.u] = << >>

\* The handlers of inbound user events (messages and callback queries).
EventHandlers ==
    {"cmd_start", "handle_select_city", "handle_check_subscription",
     "handle_city_text_input", "handle_other_messages",
     "process_city_selection", "check_subscription_callback", "back_to_menu",
     "cmd_cancel"}

\* C11: every step in which a handler takes up an inbound user event makes
\* the admit-check of the sender, and an event whose check returned False
\* gets no reply and no link.
C11_EveryEventLimited ==
    (out.op \in EventHandlers /\ out.via # "query") =>
        /\ out.rl # "none"
        /\ out.rl = "reject" => (out.reply = "" /\ out.link = "")

\* C12: in a handler that calls check_rate_limit, a False result ends the
\* handler with no effect: no reply and no link, no stored row written, no
\* external membership query sent, no cache entry written, and the FSM
\* state and the stored selection of every user as they were.
C12_RejectedHasNoEffect ==
    [][\A u \in Users :
          (CheckedStep(u) /\ out'.rl = "reject") =>
              /\ out'.reply = ""
              /\ out'.link = ""
              /\ out'.via = "none"
              /\ pending' = pending
              /\ subscription_cache' = subscription_cache
              /\ db_users' = db_users
              /\ fsm_state' = fsm_state
              /\ fsm_data' = fsm_data]_vars

\* C12 witness: the text of a blocked user who is waiting for a city and
\* has a stored selection has just been dropped.
C12_Witness ==
    /\ out.op = "handle_city_text_input"
    /\ out.rl = "reject"
    /\ out.u \in blocked_users
    /\ fsm_state[out.u] = "waiting_for_city"
    /\ fsm_data[out.u] = k_y_i_v

\* C13: the admin reset empties blocked_users, every window and every
\* last-event time in one step, and the admit-check that follows it is
\* admitted, whoever the user is and whether blocked before or not.
C13_ResetAdmitsAll ==
    [][/\ (out'.op = "admin_clear_cache" /\ out'.reply = "cleared") =>
            /\ blocked_users' = {}
            /\ user_message_counts' = Empty
            /\ last_message_times' = Empty
       /\ (out.op = "admin_clear_cache" /\ out.reply = "cleared") =>
            \A u \in Users : CheckedStep(u) => out'.rl = "admit"]_vars

\* C13 witness: a user whose spam block was persisted has just been
\* admitted, the reset having emptied the blocked set.
C13_Witness ==
    /\ out.rl = "admit"
    /\ out.u \in DOMAIN db_users
    /\ db_users[out.u].is_blocked
    /\ blocked_users = {}
    /\ Window(out.u) = <<now>>

\* C14: no step other than the admin reset removes a user from
\* blocked_users; a janitor sweep and the passing of time leave the set as
\* it is, and so does every admit-check of a blocked user.
C14_BlockIsSticky ==
    [][/\ (out'.op = "admin_clear_cache" /\ out'.reply = "cleared")
            \/ blocked_users \subseteq blocked_users'
       /\ out'.op \in {"cleanup_caches_periodically", "tick"} =>
            blocked_users' = blocked_users
       /\ \A u \in blocked_users :
            CheckedStep(u) => blocked_users' = blocked_users]_vars

\* C14 witness: a sweep has just dropped the aged-out window and the
\* last-event time of a user who is still blocked.
C14_Witness ==
    /\ out.op = "cleanup_caches_periodically"
    /\ \E u \in blocked_users :
         /\ u \notin DOMAIN user_message_counts
         /\ u \notin DOMAIN last_message_times
         /\ u \in DOMAIN db_users
         /\ db_users[u].is_blocked

\* C15: the janitor never stops: sweeps run again and again, and after a
\* sweep that raised (the exception caught and logged) the task sleeps and
\* is woken for the next one.
C15_JanitorNeverStops ==
    /\ []<><<sweep_runs>>_vars
    /\ (out.reply = "error_logged") ~> (out.op = "sleep_ends")

\* C15 witness: a sweep has just raised after its anti-spam part, and the
\* task is asleep with its next wake-up scheduled.
C15_Witness ==
    /\ out.op = "cleanup_caches_periodically"
    /\ out.reply = "error_logged"
    /\ Asleep
    /\ now >= RATE_LIMIT_WINDOW
    /\ user_message_counts = Empty

\* C16: in the seeded directory, find_city of an alias of a city, typed in
\* any casing (lower, upper, capitalized, mixed; Latin or Cyrillic), returns
\* that city.
C16_AnyCasingResolves ==
    out.op = "find_city" =>
        \A ca \in Directory.city_aliases :
            out.text \in Casings(ca.alias) => out.city = ca.city_code

\* C17: find_city of the empty string (what strip() leaves of a blank
\* text) returns None.
C17_EmptyInputFindsNothing ==
    (out.op = "find_city" /\ out.text = << >>) => out.reply = "None"

\* C18: a city without an invite link is never in the list that
\* get_available_cities returns or caches, and never a button of the city
\* keyboard; a reply that names such a city is the "not yet available" one
\* and carries no link.
NoLink == {c \in Directory.cities : c.channel_url = ""}

C18_NoLinkNeverOffered ==
    \A c \in NoLink :
        /\ \A i \in DOMAIN _cities_cache : _cities_cache[i] # c
        /\ \A i \in DOMAIN out.buttons : out.buttons[i] # c.code
        /\ out.city = c.code => (out.reply = "unavailable" /\ out.link = "")

\* C18 witness: ternopil (no link) has just been recognized and reported as
\* not yet available, with a keyboard served from the list cached by an
\* earlier call.
C18_Witness ==
    /\ out.op = "handle_city_text_input"
    /\ out.reply = "unavailable"
    /\ out.city = t_e_r_n_o_p_i_l
    /\ Len(out.buttons) = Cardinality(Directory.cities \ NoLink)
    /\ _cities_cache_time < now
    /\ now - _cities_cache_time < CITIES_CACHE_TTL

\* C19: seed_cities_data is idempotent: a second run leaves the tables as
\* the first left them; each code of the catalog has one row, with the
\* catalog's name and link; the aliases of a city of the catalog are the
\* catalog's, those an earlier seed left for it are gone.
C19_SeedIdempotent ==
    [][out'.op = "seed_cities_data" =>
        /\ out.op = "seed_cities_data" => out'.tables = out.tables
        /\ \A code \in CatalogCodes :
              /\ {c \in out'.tables.cities : c.code = code}
                     = {CityRow(LastEntry(code))}
              /\ {ca \in out'.tables.city_aliases : ca.city_code = code}
                     = AliasRows(LastEntry(code))
        /\ seed_cities_data(out'.tables) = out'.tables]_vars

\* C19 witness: seeded twice, on a file that held an older row of kyiv and
\* an alias of kyiv that the catalog has no more.
C19_Witness ==
    /\ out.op = "seed_cities_data"
    /\ out.run = 2
    /\ [city_code |-> k_y_i_v, alias |-> z_z] \in out.initial.city_aliases
    /\ [city_code |-> k_y_i_v, alias |-> z_z] \notin out.tables.city_aliases
    /\ \E c \in out.initial.cities : c.code = k_y_i_v /\ c \notin out.tables.cities

\* C20: after a seed, a string matches, without regard to ASCII case, the
\* code or an alias of at most one city.
C20_AliasOfOneCity ==
    out.op = "seed_cities_data" =>
        LET keys == {[city |-> c.code, key |-> Lower(c.code)] :
                        c \in out.tables.cities}
                    \cup {[city |-> ca.city_code, key |-> Lower(ca.alias)] :
                             ca \in out.tables.city_aliases}
        IN  \A x \in keys, y \in keys : x.key = y.key => x.city = y.city

\* C20 witness: seeded on a file in which kyiv had the alias 'kharkiv', the
\* code of another city, and kharkiv and ternopil an alias of kyiv.
C20_Witness ==
    /\ out.op = "seed_cities_data"
    /\ [city_code |-> k_y_i_v, alias |-> k_h_a_r_k_i_v] \in out.initial.city_aliases
    /\ [city_code |-> k_h_a_r_k_i_v, alias |-> k_i_e_v] \in out.initial.city_aliases
    /\ [city_code |-> t_e_r_n_o_p_i_l, alias |-> Upper(k_i_e_v)]
           \in out.initial.city_aliases
    /\ out.tables = Directory

\* C21: every step that changes the rate-limiter maps, the blocked set or
\* the subscription cache makes the change while holding _antispam_lock.
C21_MutationsUnderLock ==
    [][/\ user_message_counts' # user_message_counts
            => "user_message_counts" \in out'.locked
       /\ last_message_times' # last_message_times
            => "last_message_times" \in out'.locked
       /\ blocked_users' # blocked_users => "blocked_users" \in out'.locked
       /\ subscription_cache' # subscription_cache
            => "subscription_cache" \in out'.locked]_vars

\* C22: with no admin reset, an admitted event of a user comes at least
\* MESSAGE_COOLDOWN after the user's previous admitted event, also when a
\* sweep has dropped the user's last-event time in between; a sweep drops
\* a last-event time only when it is at least MESSAGE_COOLDOWN old.
C22_AdmittedEventsSpaced ==
    [][\A u \in Users :
          /\ (CheckedStep(u) /\ out'.rl = "admit" /\ u \in DOMAIN admitted_at)
                => now - admitted_at[u] >= MESSAGE_COOLDOWN
          /\ (u \in DOMAIN last_message_times
                /\ u \notin DOMAIN last_message_times')
                => now - last_message_times[u] >= MESSAGE_COOLDOWN]_vars

\* C22 witness: a sweep has just dropped the window and the last-event
\* time of a user admitted before, while another user keeps both.
C22_Witness ==
    /\ out.op = "cleanup_caches_periodically"
    /\ \E u \in DOMAIN admitted_at : u \notin DOMAIN last_message_times
    /\ last_message_times # Empty

\* The window of user u after the step.
WindowAfter(u) ==
    IF u \in DOMAIN user_message_counts' THEN user_message_counts'[u] ELSE << >>

\* C23: a rejected admit-check leaves the user's last-event time as it was
\* and appends nothing to the user's window (the window is as before, or as
\* before without its aged-out entries); a rejection by the cooldown leaves
\* blocked_users as it was.
C23_RejectionRecordsNothing ==
    [][\A u \in Users :
          (CheckedStep(u) /\ out'.rl = "reject") =>
              /\ last_message_times' = last_message_times
              /\ WindowAfter(u) \in {Window(u), Prune(Window(u), now)}
              /\ (u \notin blocked_users /\ u \in DOMAIN last_message_times
                    /\ now - last_message_times[u] < MESSAGE_COOLDOWN)
                    => blocked_users' = blocked_users]_vars

\* C23 witness: a user with a window has just been rejected by the cooldown.
C23_Witness ==
    \E u \in Users :
        /\ out.u = u /\ out.rl = "reject"
        /\ u \notin blocked_users
        /\ u \in DOMAIN last_message_times
        /\ now - last_message_times[u] < MESSAGE_COOLDOWN
        /\ Window(u) # << >>

\* C24: from the limiter state as constructed, with the clock never going
\* back, the pruned window of an admit-check that has passed the cooldown
\* holds fewer than RATE_LIMIT_THRESHOLD entries; blocked_users stays
\* empty, no block task is created, no user is marked blocked in storage,
\* and a user whose latest admitted event is at least MESSAGE_COOLDOWN old
\* is admitted.
C24_ThresholdNeverReached ==
    [][\A u \in Users :
          CheckedStep(u) =>
              /\ (u \in DOMAIN last_message_times
                    => now - last_message_times[u] >= MESSAGE_COOLDOWN)
                    => Len(SelectSeq(Window(u),
                                     LAMBDA m : now - m < RATE_LIMIT_WINDOW))
                          < RATE_LIMIT_THRESHOLD
              /\ blocked_users' = {}
              /\ spam_tasks' = {}
              /\ \A x \in DOMAIN db_users' : ~db_users'[x].is_blocked
              /\ (u \in DOMAIN admitted_at
                    /\ now - admitted_at[u] >= MESSAGE_COOLDOWN)
                    => out'.rl = "admit"]_vars

\* C24 witness: an event has just been admitted on a window that held
\* RATE_LIMIT_THRESHOLD - 1 entries after pruning, one of the user's
\* earlier events having aged out.
C24_Witness ==
    \E u \in Users :
        /\ out.u = u /\ out.rl = "admit"
        /\ Len(Window(u)) = RATE_LIMIT_THRESHOLD
        /\ Window(u)[1] > 0

\* The entries of a window that are younger than RATE_LIMIT_WINDOW now.
Younger(msgs) == SelectSeq(msgs, LAMBDA m : now - m < RATE_LIMIT_WINDOW)

\* C25: after a sweep every window left is non-empty and holds only
\* timestamps younger than RATE_LIMIT_WINDOW; a user whose window had only
\* aged-out entries has no window and no last-event time left; the window
\* of any other user is the old one without its aged-out entries, and the
\* last-event time of that user stays.
C25_SweepLeavesLiveWindows ==
    [][out'.op = "cleanup_caches_periodically" =>
          /\ \A u \in DOMAIN user_message_counts' :
                /\ user_message_counts'[u] # << >>
                /\ \A i \in 1..Len(user_message_counts'[u]) :
                      now - user_message_counts'[u][i] < RATE_LIMIT_WINDOW
          /\ \A u \in DOMAIN user_message_counts :
                IF Younger(user_message_counts[u]) = << >>
                THEN /\ u \notin DOMAIN user_message_counts'
                     /\ u \notin DOMAIN last_message_times'
                ELSE /\ u \in DOMAIN user_message_counts'
                     /\ user_message_counts'[u] = Younger(user_message_counts[u])
                     /\ u \in DOMAIN last_message_times
                            => /\ u \in DOMAIN last_message_times'
                               /\ last_message_times'[u] = last_message_times[u]
          /\ DOMAIN user_message_counts' \subseteq DOMAIN user_message_counts]_vars

\* C25 witness: a sweep has just removed the window of one user admitted
\* before and left the window of another.
C25_Witness ==
    /\ out.op = "cleanup_caches_periodically"
    /\ \E u \in DOMAIN admitted_at : u \notin DOMAIN user_message_counts
    /\ \E v \in DOMAIN user_message_counts : user_message_counts[v] # << >>

\* Age of the entry of key k of the subscription cache.
Age(k) == now - subscription_cache[k][2]

\* The entries a sweep finds that are not older than SUBSCRIPTION_SWEEP_AGE.
NotExpired == {k \in DOMAIN subscription_cache : Age(k) <= SUBSCRIPTION_SWEEP_AGE}

\* C26 as stated: a sweep removes from the subscription cache only entries
\* older than 60; an entry younger than the lifetime of 30 is never removed
\* by a sweep.
C26_SweepRemovesOnlyOld ==
    [][out'.op = "cleanup_caches_periodically" =>
          \A k \in DOMAIN subscription_cache :
              k \notin DOMAIN subscription_cache'
                  => /\ Age(k) > SUBSCRIPTION_SWEEP_AGE
                     /\ ~(Age(k) < SUBSCRIPTION_CACHE_TTL)]_vars

\* C26 amended: a sweep removes the entries older than 60 and no other,
\* unless more than MAX_CACHE_SIZE entries are left after that: then it
\* removes every entry.  The entries it leaves are unchanged.
C26_SweepRemovesOldOrAll ==
    [][out'.op = "cleanup_caches_periodically" =>
          /\ DOMAIN subscription_cache' =
                IF Cardinality(NotExpired) > MAX_CACHE_SIZE THEN {} ELSE NotExpired
          /\ \A k \in DOMAIN subscription_cache' :
                subscription_cache'[k] = subscription_cache[k]]_vars

\* C26 witness: a sweep has just removed the entry of one user and left the
\* entry of another (every user has an entry before the sweep).
C26_Witness ==
    /\ out.op = "cleanup_caches_periodically"
    /\ \E u, v \in Users :
          /\ u \notin DOMAIN subscription_cache
          /\ v \in DOMAIN subscription_cache
          /\ now - subscription_cache[v][2] < SUBSCRIPTION_CACHE_TTL

\* Every entry of the subscription cache is still there after the step,
\* with a timestamp that is not older.
EntriesStay ==
    \A k \in DOMAIN subscription_cache :
        /\ k \in DOMAIN subscription_cache'
        /\ subscription_cache'[k][2] >= subscription_cache[k][2]

C28_FirstByDisplayName ==
    (/\ out.op = "find_city"
     /\ out.text # << >>
     /\ \A i \in DOMAIN out.text : out.text[i] \notin {37, 95}
     /\ find_city_by_alias(out.text) = {}
     /\ Cardinality(find_cities_by_prefix(out.text)) > 1)
        => /\ out.reply = "city"
           /\ \A c \in find_cities_by_prefix(out.text) :
                 ~Less(c.name_uk, CityOf(out.city).name_uk)

\* x is, without regard to (ASCII) case, the first characters of str
LiteralPrefix(x, str) ==
    /\ Len(x) <= Len(str)
    /\ Lower(SubSeq(str, 1, Len(x))) = Lower(x)

\* C29: find_city(x) returns a city only if x is, case-insensitively, the
\* code or an alias of that city, or the first characters of its display
\* name or of one of its aliases, the characters % and _ standing for
\* themselves.
C29_OnlyLiteralMatches ==
    (out.op = "find_city" /\ out.reply = "city") =>
        LET c == CityOf(out.city)
            x == out.text
        IN  \/ Lower(x) = Lower(c.code)
            \/ LiteralPrefix(x, c.name_uk)
            \/ \E ca \in Directory.city_aliases :
                  /\ ca.city_code = c.code
                  /\ LiteralPrefix(x, ca.alias)

\* The step made no subscription check, sent no link and left the FSM
\* state and data as they were.
NoGate ==
    /\ out'.via = "none" /\ out'.sub = "none" /\ out'.link = ""
    /\ pending' = pending
    /\ subscription_cache' = subscription_cache
    /\ fsm_state' = fsm_state
    /\ fsm_data' = fsm_data

\* C30: an admitted text of a user who is choosing a city is answered by
\* what find_city returned for the stripped text: nothing - the not-found
\* reply; a city without a link - the unavailable reply naming that city;
\* a city with a link - the subscription check (from the cache, or a
\* query sent).  The first two make no subscription check, send no link
\* and leave the FSM state and data unchanged.
C30_ThreeOutcomes ==
    [][(out'.op = "handle_city_text_input" /\ out'.rl = "admit"
            /\ out'.via \in {"none", "cache", "asked"}) =>
          LET found == find_city(out'.text)
              gate == out'.via \in {"cache", "asked"}
          IN  /\ found = {} <=> out'.reply = "not_found"
              /\ out'.reply = "not_found" => NoGate
              /\ out'.reply = "unavailable" =>
                    /\ \E c \in found : c.code = out'.city /\ c.channel_url = ""
                    /\ NoGate
              /\ gate <=> out'.reply \notin {"not_found", "unavailable"}
              /\ gate => \E c \in found : c.channel_url # ""
              /\ (found # {} /\ \A c \in found : c.channel_url = "")
                    => out'.reply = "unavailable"
              /\ (found # {} /\ \A c \in found : c.channel_url # "") => gate]_vars

\* C30 witness: the typed prefix of a city without a link has just been
\* answered "not yet available", and the user is still choosing a city.
C30_Witness ==
    /\ out.op = "handle_city_text_input"
    /\ out.reply = "unavailable"
    /\ out.city = t_e_r_n_o_p_i_l
    /\ out.u \in Users
    /\ fsm_state[out.u] = "waiting_for_city"

\* C31: a selected_city stored in the FSM data of a user resolves
\* (find_city_by_alias) to a city, and only to a city with an invite link;
\* a link sent by check_subscription_callback is never empty.
C31_SelectionHasLink ==
    /\ \A u \in Users :
          fsm_data[u] # << >> =>
              /\ find_city_by_alias(fsm_data[u]) # {}
              /\ \A c \in find_city_by_alias(fsm_data[u]) : c.channel_url # ""
    /\ (out.op = "check_subscription_callback" /\ out.reply = "link")
          => out.link # ""

\* C31 witness: the forced re-check of a callback, answered "creator" by
\* the platform, has sent the link of the stored selection kyiv.
C31_Witness ==
    /\ out.op = "check_subscription_callback"
    /\ out.ans = "creator"
    /\ out.reply = "link"
    /\ out.city = k_y_i_v
    /\ out.link = CityOf(k_y_i_v).channel_url

\* The step is the start of check_subscription_callback for user u (the
\* callback query has arrived).
CallbackArrives(u) ==
    /\ out'.op = "check_subscription_callback" /\ out'.u = u
    /\ out'.via \in {"none", "asked", "cache"}

\* The step is the end of a check_subscription_callback of user u whose
\* forced query has been answered.
CallbackAnswered(u) ==
    /\ out'.op = "check_subscription_callback" /\ out'.u = u
    /\ out'.via = "query"

\* C32: a check_subscription callback of a user with a stored selection
\* sends the external query and leaves the selection stored, also when the
\* answer is "not subscribed"; when the answer is "subscribed" the link of
\* the selected city is sent.  A step that sends a link to a user clears
\* the user's FSM state and selection.  A callback of a user with no
\* selection answers "city not selected", sends no query and no link.
C32_GatedFlow ==
    [][\A u \in Users :
          /\ (CallbackArrives(u) /\ fsm_data[u] # << >>) =>
                /\ out'.via = "asked"
                /\ Len(pending') = Len(pending) + 1
                /\ fsm_data'[u] = fsm_data[u]
                /\ fsm_state'[u] = fsm_state[u]
          /\ (CallbackAnswered(u) /\ out'.sub = "no") =>
                /\ out'.reply = "not_subscribed" /\ out'.link = ""
                /\ fsm_data'[u] = fsm_data[u]
                /\ fsm_state'[u] = fsm_state[u]
          /\ (CallbackAnswered(u) /\ out'.sub = "yes") =>
                /\ out'.reply = "link"
                /\ \E i \in DOMAIN pending :
                      /\ pending[i].by = u
                      /\ CityOf(out'.city) \in find_city_by_alias(pending[i].code)
                /\ out'.link = CityOf(out'.city).channel_url
          /\ (out'.u = u /\ out'.reply = "link") =>
                /\ fsm_state'[u] = ""
                /\ fsm_data'[u] = << >>
          /\ (CallbackArrives(u) /\ fsm_data[u] = << >>) =>
                /\ out'.reply = "city_not_selected"
                /\ out'.via = "none" /\ out'.link = ""
                /\ pending' = pending
                /\ subscription_cache' = subscription_cache]_vars

\* C32 witness: the forced re-check of a callback has been answered "left"
\* and the selection kyiv is still stored for the user.
C32_Witness ==
    /\ out.op = "check_subscription_callback"
    /\ out.ans = "left"
    /\ out.reply = "not_subscribed"
    /\ out.u \in Users
    /\ fsm_data[out.u] = k_y_i_v

\* C33: a "/cancel" message is handled by cmd_cancel in every FSM state of
\* its sender: the state is cleared, no broadcast message is delivered to
\* any user, and the text is not looked up as a city.
C33_CancelAlwaysCancels ==
    [][\A u \in Users :
          (out'.u = u /\ (out'.op = "cmd_cancel" \/ out'.text = s_cancel)) =>
              /\ out'.op = "cmd_cancel"
              /\ fsm_state'[u] = ""
              /\ out'.sent = {}]_vars


\* C34: save_user on a user who is already stored leaves that user's blocked
\* flag and block reason as they were (only the names and updated_at
\* change), so a /start never clears a persisted block.
C34_SaveUserKeepsBlock ==
    [][\A u \in Users :
          (out'.op = "cmd_start" /\ out'.u = u /\ out'.rl = "admit"
              /\ u \in DOMAIN db_users) =>
                /\ db_users'[u].is_blocked = db_users[u].is_blocked
                /\ db_users'[u].block_reason = db_users[u].block_reason]_vars


\* C35: every admitted interaction of a user, whichever handler takes it,
\* leaves a stored record of that user in the users table.
C35_AdmittedIsStored ==
    [][\A u \in Users :
          (out'.u = u /\ out'.rl = "admit") => u \in DOMAIN db_users']_vars


\* The handlers of the admin's operations
AdminHandlers ==
    {"admin_clear_cache", "admin_broadcast_callback", "admin_stats_callback",
     "admin_users_callback", "admin_cities_callback", "cmd_admin", "cmd_stats",
     "cmd_admin_check_subscription", "process_broadcast"}

\* C36: an admin operation requested by a user other than ADMIN_ID changes
\* nothing: the limiter's collections, the subscription cache, the FSM state
\* and data, the users table and the cached list of cities stay as they
\* were, no membership query is sent or answered from the cache, nothing is
\* written to the admin log and no message goes to another user.
C36_NonAdminChangesNothing ==
    [][(out'.op \in AdminHandlers /\ out'.u # ADMIN_ID) =>
            /\ UNCHANGED <<user_message_counts, last_message_times,
                           blocked_users, spam_tasks, subscription_cache,
                           fsm_state, fsm_data, db_users, cities_memo, pending>>
            /\ out'.via = "none"
            /\ out'.sent = {}
            /\ out'.logged = ""]_vars

\* C36 witness: a user other than the admin has just requested the reset of
\* the caches while the limiter's collections, the subscription cache and
\* the users table hold entries.
C36_Witness ==
    /\ out.op = "admin_clear_cache"
    /\ out.u # ADMIN_ID
    /\ out.reply = "no_access"
    /\ DOMAIN last_message_times # {}
    /\ DOMAIN subscription_cache # {}
    /\ DOMAIN db_users # {}


\* C37: when checks of one user overlap at the external query, the time
\* stored in the user's cache entry never goes back: an entry is overwritten
\* only by the result of a check that started at the same time or later.
C37_StampNeverDecreases ==
    [][\A u \in Users :
          (u \in DOMAIN subscription_cache /\ u \in DOMAIN subscription_cache') =>
              subscription_cache'[u][2] >= subscription_cache[u][2]]_vars


\* The timestamps of a window in the order of the events
InOrder(w) == \A i, j \in DOMAIN w : i < j => w[i] <= w[j]

\* The steps that take _antispam_lock
LockHolders ==
    EventHandlers \cup {"cleanup_caches_periodically", "admin_clear_cache"}

=============================================================================
